---- MODULE Spec2Model ----
(***************************************************************************)
(* Verification model of the signphony scoring code of lit-api:            *)
(*   shared/pose_comparison.py  (visibility filter, normalisation, DTW and  *)
(*                               Euclidean distance, score conversion,     *)
(*                               multi-metric scoring)                     *)
(*   magic_tricks.py            (hand-state extraction, step scoring,      *)
(*                               whole-trick scoring)                      *)
(*                                                                         *)
(* Real numbers are fixed-point integers: a float f is the integer         *)
(* f * Unit, divisions round down, square roots round down.  A frame is a  *)
(* function from landmark index to <<x, y, visibility>>.                   *)
(***************************************************************************)
EXTENDS Integers, Sequences, FiniteSets, TLC

VARIABLES
    pc,                 \* position of the call under study: "input", "done"
    \* ---- score conversion (compare_sign_sequences, lines 201-206)
    distance_a, distance_b, score_a, score_b,
    \* ---- dtw_distance(ref_poses, user_input, use_fast)
    ref_flat, user_flat, use_fast, dtaidistance_available, fastdtw_available,
    dtw_result, dtw_swapped,
    \* ---- calculate_accuracy_metrics(reference_poses, user_poses)
    reference_input, user_input, metrics, distance_calls,
    \* ---- MagicTrickScorer.score_step(user_poses, step)
    step_input, segment_input, step_score, step_details, score_hand_state_calls,
    \* ---- MagicTrickScorer.score_complete_trick(user_poses_sequence, trick)
    trick_input, segments_input, trick_score, trick_details, score_step_calls,
    \* ---- SignSequencer.calculate_timing / generate_interpolation(sign_sequence)
    sign_sequence_input, timing, interpolations,
    \* ---- numpy arrays in memory: the buffers, the call and what it returned
    heap, call, returned,
    \* ---- MagicTrickDefinition: constructor arguments, the object, to_json / from_json results
    definition_input, definition, json_text, restored, json_again,
    \* ---- concurrent scoring calls: the shared tables and each call's progress
    config_tables, running, phase, partial, call_results, overlap,
    \* ---- progress tables (database.py): the rows of one (user, content) pair
    user_progress, user_progress_v2, progress_calls, best_submitted, update_error, clients, unique_pair,
    \* ---- AuslanGrammar (grammar.py): reordering and spatial indexing
    gloss_tokens, reordered_tokens, sentence, spatial_indices, next_spatial_index, unindexed, indexed, gloss_calls

scoreVars == <<distance_a, distance_b, score_a, score_b>>
dtwVars == <<ref_flat, user_flat, use_fast, dtaidistance_available,
             fastdtw_available, dtw_result, dtw_swapped>>
poseVars == <<reference_input, user_input, metrics, distance_calls>>
stepVars == <<step_input, segment_input, step_score, step_details, score_hand_state_calls>>
trickVars == <<trick_input, segments_input, trick_score, trick_details, score_step_calls>>
seqVars == <<sign_sequence_input, timing, interpolations>>
memVars == <<heap, call, returned>>
defVars == <<definition_input, definition, json_text, restored, json_again>>
concVars == <<config_tables, running, phase, partial, call_results, overlap>>
dbVars == <<user_progress, user_progress_v2, progress_calls, best_submitted, update_error, clients, unique_pair>>
glossVars == <<gloss_tokens, reordered_tokens, sentence, spatial_indices, next_spatial_index, unindexed, indexed, gloss_calls>>

-----------------------------------------------------------------------------
(* Fixed-point arithmetic *)

\* One unit of the fixed-point representation: the float 1.0.
Unit == 10 * 10 * 10

\* Larger than every finite distance of the model; stands for float inf.
Infinity == 2000 * 1000 * 1000

\* numpy's nan
NaN == 0 - 1000 * 1000

IsNaN(v) == v = NaN

Max(a, b) == IF a >= b THEN a ELSE b

Min(a, b) == IF a <= b THEN a ELSE b

Abs(a) == IF a < 0 THEN 0 - a ELSE a

RECURSIVE SqrtSearch(_, _, _)
SqrtSearch(n, lo, hi) ==
    IF lo >= hi THEN lo
    ELSE LET mid == (lo + hi + 1) \div 2
         IN  IF mid * mid <= n THEN SqrtSearch(n, mid, hi)
             ELSE SqrtSearch(n, lo, mid - 1)

\* floor(sqrt(n)); np.sqrt / scipy's euclidean norm at the model's precision
ISqrt(n) == SqrtSearch(n, 0, Min(n, 46340))

\* The array a function over 1..n stands for, every element evaluated once.
Array(f) == f \o <<>>

SumSeq(s) ==
    LET S[lo \in 1..(Len(s) + 1), hi \in 0..Len(s)] ==
            IF lo > hi THEN 0
            ELSE IF lo = hi THEN s[lo]
            ELSE S[lo, (lo + hi) \div 2] + S[(lo + hi) \div 2 + 1, hi]
    IN  S[1, Len(s)]

-----------------------------------------------------------------------------
(* shared/config.py *)

\* DTW_CONFIG['max_distance'] = 8.0
max_distance == 8 * Unit

\* DTW_CONFIG['visibility_threshold'] = 0.5
visibility_threshold == Unit \div 2

\* DTW_CONFIG['use_hand_focus'] = True
use_hand_focus_default == TRUE

\* DTW_CONFIG['use_fast_dtw'] = True
use_fast_dtw == TRUE

\* MEDIAPIPE_CONFIG['num_landmarks']
num_landmarks == 33

Landmarks == 0..(num_landmarks - 1)

LANDMARK_INDICES ==
    [hands |-> {9, 10, 13, 14, 15, 16, 17, 18, 19, 20, 21, 22},
     upper_body |-> {0, 1, 2, 5, 6, 7, 8, 11, 12, 13, 14, 15, 16, 17, 18, 19,
                     20, 21, 22},
     torso |-> {11, 12},
     face |-> {0, 1, 2, 3, 4, 5, 6, 7, 8, 9, 10},
     legs |-> {23, 24, 25, 26, 27, 28, 29, 30, 31, 32}]

-----------------------------------------------------------------------------
(* Score conversion: compare_sign_sequences lines 201-206 *)

ToScoreNoFloor(distance) ==
    Min(100 * Unit, 100 * (Unit - (distance * Unit) \div max_distance))

\* score = max(0, 100 * (1 - distance / max_distance)); score = min(100, score)
ToScore(distance) ==
    LET score == Max(0, 100 * (Unit - (distance * Unit) \div max_distance))
    IN  Min(100 * Unit, score)

-----------------------------------------------------------------------------
(* Distances between flattened sequences: sequences of feature vectors *)

\* squared Euclidean distance of two feature vectors of the same width
SqDist(u, v) == SumSeq(Array([k \in 1..(Len(u)) |-> (u[k] - v[k]) * (u[k] - v[k])]))

\* scipy.spatial.distance.euclidean(u, v)
euclidean(u, v) == ISqrt(SqDist(u, v))

Min3(a, b, c) == Min(a, Min(b, c))

\* Dynamic time warping without the (0,1) step: an asymmetric step pattern.
DtwTableNoColumnStep(cost, n, m) ==
    LET D[i \in 0..n, j \in 0..m] ==
            IF i = 0 /\ j = 0 THEN 0
            ELSE IF i = 0 \/ j = 0 THEN Infinity
            ELSE LET best == Min(D[i-1, j], D[i-1, j-1])
                 IN  IF best >= Infinity THEN Infinity
                     ELSE cost[i][j] + best
    IN  D[n, m]

\* Classic dynamic time warping over an n x m cost matrix: the cheapest
\* monotone alignment path from (1,1) to (n,m) with steps (1,0), (0,1), (1,1).
DtwTable(cost, n, m) ==
    LET D[i \in 0..n, j \in 0..m] ==
            IF i = 0 /\ j = 0 THEN 0
            ELSE IF i = 0 \/ j = 0 THEN Infinity
            ELSE LET best == Min3(D[i-1, j], D[i, j-1], D[i-1, j-1])
                 IN  IF best >= Infinity THEN Infinity
                     ELSE cost[i][j] + best
    IN  D[n, m]

\* dtaidistance.dtw.distance(s1, s2): squared Euclidean inner distance,
\* square root of the cheapest path's sum.
dtw_distance_exact(s1, s2) ==
    ISqrt(DtwTable(Array([i \in 1..(Len(s1)) |->
                       Array([j \in 1..(Len(s2)) |-> SqDist(s1[i], s2[j])])]),
                   Len(s1), Len(s2)))

\* fastdtw(x, y, dist=euclidean) with the default radius 1.  For sequences of
\* up to four frames the search window of fastdtw is the whole matrix (a
\* sequence shorter than radius + 2 is handed to plain dtw; a longer one is
\* halved to at most two frames and its path widened by the radius and
\* doubled), so the result is the plain DTW sum of Euclidean step costs.
fastdtw(x, y) ==
    DtwTable(Array([i \in 1..(Len(x)) |->
                 Array([j \in 1..(Len(y)) |-> euclidean(x[i], y[j])])]),
             Len(x), Len(y))

\* A distance result: a float, nan, or a raised exception.
Value(v) == [kind |-> "value", value |-> v]
NanResult == [kind |-> "nan", value |-> 0]
Raised == [kind |-> "error", value |-> 0]

\* What scipy.signal.resample (FFT resampling, outside the repository) makes
\* of the call: for non-empty data some resampled signal, whose mean frame
\* distance is any non-negative float; for an empty side either an exception
\* or nothing usable.
ResampleOutcomes == {0, max_distance \div 2, max_distance, 2 * max_distance}

\* resample is called only for sequences of different lengths
ResampleChoices(ref_poses, user_poses) ==
    IF Len(ref_poses) # Len(user_poses) THEN ResampleOutcomes ELSE {0}

\* euclidean_distance(ref_poses, user_poses); resampled is the outcome of the
\* resample calls when the lengths differ.
euclidean_distance(ref_poses, user_poses, resampled) ==
    LET target_length == Len(ref_poses) IN
    IF Len(user_poses) # target_length
    THEN IF target_length = 0 \/ Len(user_poses) = 0
         THEN IF resampled = 0 THEN Raised ELSE NanResult
         ELSE Value(resampled)
    ELSE IF target_length = 0
         THEN NanResult        \* np.mean([]) is nan
         ELSE Value(SumSeq(Array([i \in 1..target_length |->
                                euclidean(ref_poses[i], user_poses[i])]))
                    \div target_length)

\* a variant of dtw_distance that falls back to euclidean_distance also when
\* fastdtw is missing
dtw_distance_one_fallback(ref_poses, user_poses, fast, dtai, fdtw, resampled) ==
    LET fast_ == IF fast = "None" THEN use_fast_dtw ELSE fast = "True" IN
    IF ~dtai \/ (fast_ /\ ~fdtw) THEN euclidean_distance(ref_poses, user_poses, resampled)
    ELSE IF Len(ref_poses) = 0 \/ Len(user_poses) = 0 THEN Value(max_distance)
    ELSE IF fast_ THEN Value(fastdtw(ref_poses, user_poses))
    ELSE Value(dtw_distance_exact(ref_poses, user_poses))

\* dtw_distance(ref_poses, user_poses, use_fast): dtai and fdtw say whether
\* the imports of dtaidistance and fastdtw succeed.
dtw_distance(ref_poses, user_poses, fast, dtai, fdtw, resampled) ==
    LET fast_ == IF fast = "None" THEN use_fast_dtw ELSE fast = "True" IN
    IF ~dtai THEN euclidean_distance(ref_poses, user_poses, resampled)
    ELSE IF Len(ref_poses) = 0 \/ Len(user_poses) = 0 THEN Value(max_distance)
    ELSE IF fast_ /\ fdtw THEN Value(fastdtw(ref_poses, user_poses))
    ELSE Value(dtw_distance_exact(ref_poses, user_poses))

-----------------------------------------------------------------------------
(* Pose pipeline: sequences of frames, a frame maps each landmark to        *)
(* <<x, y, visibility>>                                                     *)

\* focus_on_body_part(poses, part) for a part of LANDMARK_INDICES: a zeroed
\* copy with the part's landmarks copied in.
focus_on_body_part(poses, part) ==
    Array([f \in 1..(Len(poses)) |->
        [l \in DOMAIN poses[f] |->
            IF l \in LANDMARK_INDICES[part] THEN poses[f][l] ELSE <<0, 0, 0>>]])

\* a variant of filter_poses_by_visibility that also drops the landmarks whose
\* visibility equals the threshold
filter_poses_by_visibility_inclusive(poses, threshold) ==
    Array([f \in 1..(Len(poses)) |->
        [l \in DOMAIN poses[f] |->
            IF poses[f][l][3] <= threshold THEN <<NaN, NaN, NaN>> ELSE poses[f][l]]])

\* filter_poses_by_visibility(poses, threshold): every landmark whose third
\* coordinate is below the threshold becomes nan in all three coordinates.
filter_poses_by_visibility(poses, threshold) ==
    Array([f \in 1..(Len(poses)) |->
        [l \in DOMAIN poses[f] |->
            IF poses[f][l][3] < threshold THEN <<NaN, NaN, NaN>> ELSE poses[f][l]]])

\* flatten_poses(poses): (n_frames, num_landmarks, 3) -> (n_frames, num_landmarks*3)
flatten_poses(poses) ==
    Array([f \in 1..(Len(poses)) |->
        Array([k \in 1..(3 * Cardinality(DOMAIN poses[f])) |->
            poses[f][(k - 1) \div 3][((k - 1) % 3) + 1]])])

RECURSIVE MinSeq(_)
MinSeq(s) == IF Len(s) = 1 THEN s[1] ELSE Min(Head(s), MinSeq(Tail(s)))

RECURSIVE MaxSeq(_)
MaxSeq(s) == IF Len(s) = 1 THEN s[1] ELSE Max(Head(s), MaxSeq(Tail(s)))

\* np.nanmean(col): the mean of the values that are not nan, nan if none is
nanmean(col) ==
    LET valid == SelectSeq(col, LAMBDA v : ~IsNaN(v))
    IN  IF valid = <<>> THEN NaN ELSE SumSeq(valid) \div Len(valid)

\* a variant of CleanColumn that replaces every nan by 0
CleanColumnWithZero(col, col_mean) ==
    Array([f \in 1..(Len(col)) |-> IF IsNaN(col[f]) THEN 0 ELSE col[f]])

\* first loop of normalize_poses, for one column with its nanmean
CleanColumn(col, col_mean) ==
    Array([f \in 1..(Len(col)) |->
        IF IsNaN(col[f]) THEN (IF IsNaN(col_mean) THEN 0 ELSE col_mean)
        ELSE col[f]])

\* second loop of normalize_poses, for one column with its minimum and maximum
ScaleColumn(col, col_min, col_max) ==
    IF col_max > col_min
    THEN Array([f \in 1..(Len(col)) |->
             ((col[f] - col_min) * Unit) \div (col_max - col_min)])
    ELSE col

ScaledClean(clean) == ScaleColumn(clean, MinSeq(clean), MaxSeq(clean))

NormalizeColumn(col) == ScaledClean(CleanColumn(col, nanmean(col)))

Transpose(columns, n, width) ==
    Array([f \in 1..n |-> Array([i \in 1..width |-> columns[i][f]])])

\* normalize_poses(poses) on a flattened non-empty sequence: column by column
normalize_poses(poses) ==
    Transpose(Array([i \in 1..(Len(poses[1])) |->
                  NormalizeColumn(Array([f \in 1..(Len(poses)) |-> poses[f][i]]))]),
              Len(poses), Len(poses[1]))

\* The result of compare_sign_sequences: a score (or a propagated exception)
\* and the number of dtw_distance / euclidean_distance calls made.
Compared(kind, score, calls) == [kind |-> kind, score |-> score, calls |-> calls]

ScoreOf(d) ==
    IF d.kind = "error" THEN Compared("error", 0, 1)
    ELSE IF d.kind = "nan" THEN Compared("value", 0, 1)   \* max(0, nan) is 0
    ELSE Compared("value", ToScore(d.value), 1)

\* lines 183-199 of compare_sign_sequences on the (focused) inputs
\* the distance of two normalised sequences under the method, as a score
DistanceScore(ref_normalized, user_normalized, method, dtai, fdtw, resampled) ==
    IF method = "dtw"
    THEN ScoreOf(dtw_distance(ref_normalized, user_normalized, "None",
                              dtai, fdtw, resampled))
    ELSE ScoreOf(euclidean_distance(ref_normalized, user_normalized, resampled))

\* filter by visibility, flatten, normalise
Prepared(poses, threshold) ==
    normalize_poses(flatten_poses(filter_poses_by_visibility(poses, threshold)))

compare_sign_sequences_and_guard(reference_poses, user_poses, threshold, method, use_hand_focus, dtai, fdtw, resampled) ==
    IF Len(reference_poses) = 0 /\ Len(user_poses) = 0
    THEN Compared("value", 0, 0)
    ELSE IF Len(reference_poses) = 0 \/ Len(user_poses) = 0
    THEN DistanceScore(<<>>, <<>>, method, dtai, fdtw, resampled)
    ELSE DistanceScore(
            Prepared(IF use_hand_focus
                     THEN focus_on_body_part(reference_poses, "hands")
                     ELSE reference_poses, threshold),
            Prepared(IF use_hand_focus
                     THEN focus_on_body_part(user_poses, "hands")
                     ELSE user_poses, threshold),
            method, dtai, fdtw, resampled)

compare_sign_sequences_focus_ref_only(reference_poses, user_poses, threshold, method, use_hand_focus, dtai, fdtw, resampled) ==
    IF Len(reference_poses) = 0 \/ Len(user_poses) = 0
    THEN Compared("value", 0, 0)
    ELSE DistanceScore(
            Prepared(IF use_hand_focus
                     THEN focus_on_body_part(reference_poses, "hands")
                     ELSE reference_poses, threshold),
            Prepared(user_poses, threshold),
            method, dtai, fdtw, resampled)

\* compare_sign_sequences(reference_poses, user_poses, visibility_threshold,
\*                        method, use_hand_focus)
compare_sign_sequences(reference_poses, user_poses, threshold, method, use_hand_focus, dtai, fdtw, resampled) ==
    IF Len(reference_poses) = 0 \/ Len(user_poses) = 0
    THEN Compared("value", 0, 0)
    ELSE DistanceScore(
            Prepared(IF use_hand_focus
                     THEN focus_on_body_part(reference_poses, "hands")
                     ELSE reference_poses, threshold),
            Prepared(IF use_hand_focus
                     THEN focus_on_body_part(user_poses, "hands")
                     ELSE user_poses, threshold),
            method, dtai, fdtw, resampled)

\* weights of the composite, in tenths (0.5, 0.3, 0.2)
hand_weight == 5
upper_body_weight == 3
dtw_weight == 2

weighted_score_heavy(hand_dtw_score, upper_body_score, dtw_score) ==
    (hand_weight * hand_dtw_score + upper_body_weight * upper_body_score
        + upper_body_weight * dtw_score) \div 10

\* 0.5 * hand_dtw_score + 0.3 * upper_body_score + 0.2 * dtw_score
weighted_score(hand_dtw_score, upper_body_score, dtw_score) ==
    (hand_weight * hand_dtw_score + upper_body_weight * upper_body_score
        + dtw_weight * dtw_score) \div 10

\* lines 269-279 of calculate_accuracy_metrics: the dictionary built from the
\* four comparisons, whether an exception escaped, and the distance calls made
MetricsOf(dtw, hand, upper, eucl, n_ref, n_user) ==
    [raised |-> "error" \in {dtw.kind, hand.kind, upper.kind, eucl.kind},
     calls |-> dtw.calls + hand.calls + upper.calls + eucl.calls,
     metrics |->
        [dtw_score |-> dtw.score,
         hand_dtw_score |-> hand.score,
         upper_body_score |-> upper.score,
         euclidean_score |-> eucl.score,
         frame_count_ratio |-> (n_user * Unit) \div Max(1, n_ref),
         weighted_score |-> weighted_score(hand.score, upper.score, dtw.score)]]

\* calculate_accuracy_metrics(reference_poses, user_poses)
calculate_accuracy_metrics(reference_poses, user_poses, dtai, fdtw, resampled) ==
    MetricsOf(
        compare_sign_sequences(reference_poses, user_poses, visibility_threshold,
                               "dtw", FALSE, dtai, fdtw, resampled),
        compare_sign_sequences(reference_poses, user_poses, visibility_threshold,
                               "dtw", TRUE, dtai, fdtw, resampled),
        compare_sign_sequences(focus_on_body_part(reference_poses, "upper_body"),
                               focus_on_body_part(user_poses, "upper_body"),
                               visibility_threshold, "dtw", FALSE, dtai, fdtw,
                               resampled),
        compare_sign_sequences(reference_poses, user_poses, visibility_threshold,
                               "euclidean", FALSE, dtai, fdtw, resampled),
        Len(reference_poses), Len(user_poses))

-----------------------------------------------------------------------------
(* magic_tricks.py: exact rational arithmetic of the step and trick scores  *)
(* A rational is [n |-> numerator, d |-> denominator] with d > 0, reduced.  *)

RECURSIVE GCD(_, _)
GCD(a, b) == IF b = 0 THEN a ELSE GCD(b, a % b)

Rat(n, d) ==
    LET g == GCD(Abs(n), Abs(d))
        s == IF d < 0 THEN 0 - 1 ELSE 1
    IN  [n |-> (s * n) \div g, d |-> (s * d) \div g]

RInt(k) == [n |-> k, d |-> 1]

RLess(a, b) == a.n * b.d < b.n * a.d

RMin(a, b) == IF RLess(b, a) THEN b ELSE a

RMax(a, b) == IF RLess(a, b) THEN b ELSE a

RAdd(a, b) == Rat(a.n * b.d + b.n * a.d, a.d * b.d)

RSub(a, b) == Rat(a.n * b.d - b.n * a.d, a.d * b.d)

RScale(k, a) == Rat(k * a.n, a.d)

RECURSIVE RSum(_)
RSum(s) == IF s = <<>> THEN RInt(0) ELSE RAdd(Head(s), RSum(Tail(s)))

-----------------------------------------------------------------------------
(* magic_tricks.py: MagicTrickDefinition and MagicTrickScorer               *)

\* HandState(name, hand, position, finger_configuration) with the dataclass
\* defaults visibility_required = 0.7 and tolerance = 0.15 unless given
default_visibility_required == (7 * Unit) \div 10

default_tolerance == (15 * Unit) \div 100

HandState(name, hand, position, finger_configuration, visibility_required) ==
    [name |-> name, hand |-> hand, position |-> position,
     finger_configuration |-> finger_configuration,
     visibility_required |-> visibility_required,
     tolerance |-> default_tolerance]

TrickStep(order, duration_frames, hand_states) ==
    [order |-> order, duration_frames |-> duration_frames, hand_states |-> hand_states]

\* sorted(steps, key=lambda s: s.order): stable insertion of the last step
\* behind every step whose order is not greater
RECURSIVE SortedByOrder(_)
SortedByOrder(steps) ==
    IF Len(steps) <= 1 THEN steps
    ELSE LET last == steps[Len(steps)]
             front == SortedByOrder(SubSeq(steps, 1, Len(steps) - 1))
             before == SelectSeq(front, LAMBDA s : s.order <= last.order)
             after == SelectSeq(front, LAMBDA s : s.order > last.order)
         IN  before \o <<last>> \o after

\* MagicTrickDefinition.__init__: the steps attribute
MagicTrickDefinition(steps) == SortedByOrder(steps)

RIGHT_WRIST == 16

LEFT_WRIST == 15

\* list(range(16, 23))
RIGHT_HAND_LANDMARKS == Array([k \in 1..7 |-> 15 + k])

LEFT_HAND_LANDMARKS == RIGHT_HAND_LANDMARKS

NECK == 1

RIGHT_SHOULDER == 12

MOUTH == 9

\* a < b on floats: false as soon as one side is nan
Less(a, b) == ~IsNaN(a) /\ ~IsNaN(b) /\ a < b

\* a + b on floats
Plus(a, b) == IF IsNaN(a) \/ IsNaN(b) THEN NaN ELSE a + b

\* poses[:, idx, c] (c = 1, 2, 3 for x, y, visibility)
Column(poses, idx, c) == Array([f \in 1..(Len(poses)) |-> poses[f][idx][c]])

\* the if / elif chain of _classify_position on the three body references
ClassifyAgainst(y, neck_y, mouth_y, shoulder_x) ==
    IF Less(y, Plus(mouth_y, 0 - Unit \div 10)) THEN "above_head"
    ELSE IF Less(y, Plus(neck_y, 0 - Unit \div 20)) THEN "face_level"
    ELSE IF Less(y, Plus(shoulder_x, Unit \div 5)) THEN "chest_level"
    ELSE "waist_level"

_classify_position(x, y, poses) ==
    ClassifyAgainst(y, nanmean(Column(poses, NECK, 2)),
                    nanmean(Column(poses, MOUTH, 2)),
                    nanmean(Column(poses, RIGHT_SHOULDER, 1)))

\* np.all(~np.isnan(frame)) on the hand landmarks' x and y
FrameComplete(frame, hand_indices) ==
    \A k \in 1..(Len(hand_indices)) :
        ~IsNaN(frame[hand_indices[k]][1]) /\ ~IsNaN(frame[hand_indices[k]][2])

\* half the perimeter of the hand landmarks' bounding box, halved again
BoxSpread(xs, ys) == ((MaxSeq(xs) - MinSeq(xs)) + (MaxSeq(ys) - MinSeq(ys))) \div 2

FrameSpread(frame, hand_indices) ==
    BoxSpread(Array([k \in 1..(Len(hand_indices)) |-> frame[hand_indices[k]][1]]),
              Array([k \in 1..(Len(hand_indices)) |-> frame[hand_indices[k]][2]]))

\* the tail of _calculate_hand_openness on the collected spread_scores
OpennessOf(spread_scores) ==
    IF spread_scores = <<>> THEN Unit \div 2
    ELSE LET avg_spread == SumSeq(spread_scores) \div Len(spread_scores)
         IN  Min(Unit, Max(0, (avg_spread * Unit) \div ((3 * Unit) \div 10)))

SpreadScores(complete, hand_indices) ==
    Array([f \in 1..(Len(complete)) |-> FrameSpread(complete[f], hand_indices)])

_calculate_hand_openness(poses, hand_indices) ==
    OpennessOf(SpreadScores(SelectSeq(poses, LAMBDA frame : FrameComplete(frame, hand_indices)),
                            hand_indices))

\* _trajectory_length on the wrist's x and y columns
_trajectory_length(xs, ys) ==
    IF Len(xs) < 2 \/ (\E f \in 1..(Len(xs)) : IsNaN(xs[f]) \/ IsNaN(ys[f])) THEN 0
    ELSE SumSeq(Array([f \in 1..(Len(xs) - 1) |->
             ISqrt((xs[f + 1] - xs[f]) * (xs[f + 1] - xs[f])
                   + (ys[f + 1] - ys[f]) * (ys[f + 1] - ys[f]))]))

WristIndex(hand) == IF hand = "right" THEN RIGHT_WRIST ELSE LEFT_WRIST

HandIndices(hand) == IF hand = "right" THEN RIGHT_HAND_LANDMARKS ELSE LEFT_HAND_LANDMARKS

HandMetrics(poses, hand, xs, ys) ==
    [avg_x |-> nanmean(xs),
     avg_y |-> nanmean(ys),
     position |-> _classify_position(nanmean(xs), nanmean(ys), poses),
     openness |-> _calculate_hand_openness(poses, HandIndices(hand)),
     trajectory_length |-> _trajectory_length(xs, ys),
     visibility_avg |-> nanmean(Column(poses, WristIndex(hand), 3))]

\* extract_hand_position(poses, hand) on at least one frame (the caller
\* returns before the call when there is none)
extract_hand_position(poses, hand) ==
    HandMetrics(poses, hand, Column(poses, WristIndex(hand), 1),
                Column(poses, WristIndex(hand), 2))

\* a variant of _score_hand_state deducting 30 for every failed class
_score_hand_state_flat_deduction(hand_metrics, hand_state) ==
    LET openness == hand_metrics.openness
        cfg == hand_state.finger_configuration
        failed == \/ cfg = "open" /\ openness < (6 * Unit) \div 10
                  \/ cfg = "closed" /\ openness > (4 * Unit) \div 10
                  \/ cfg = "pinched" /\ (openness < (2 * Unit) \div 10 \/ openness > (7 * Unit) \div 10)
                  \/ cfg = "spread" /\ openness < (7 * Unit) \div 10
        after_cfg == IF failed THEN 100 - 30 ELSE 100
        score == IF hand_state.position # hand_metrics.position THEN after_cfg - 20 ELSE after_cfg
    IN  Max(0, score)

\* _score_hand_state(metrics, hand_state), in whole points
_score_hand_state(hand_metrics, hand_state) ==
    LET openness == hand_metrics.openness
        cfg == hand_state.finger_configuration
        after_cfg ==
            IF cfg = "open"
            THEN (IF openness < (6 * Unit) \div 10 THEN 100 - 30 ELSE 100)
            ELSE IF cfg = "closed"
            THEN (IF openness > (4 * Unit) \div 10 THEN 100 - 30 ELSE 100)
            ELSE IF cfg = "pinched"
            THEN (IF openness < (2 * Unit) \div 10 \/ openness > (7 * Unit) \div 10
                  THEN 100 - 25 ELSE 100)
            ELSE IF cfg = "spread"
            THEN (IF openness < (7 * Unit) \div 10 THEN 100 - 25 ELSE 100)
            ELSE 100
        score == IF hand_state.position # hand_metrics.position THEN after_cfg - 20 ELSE after_cfg
    IN  Max(0, score)

\* a variant of the loop body that compares the visibility with the hand
\* state's tolerance
ScoreOneHandStateByTolerance(hand_metrics, hand_state) ==
    IF Less(hand_metrics.visibility_avg, hand_state.tolerance)
    THEN [score |-> 20, scored |-> 0,
          detail |-> [hand |-> hand_state.hand, score |-> 20, reason |-> "Low visibility"]]
    ELSE [score |-> _score_hand_state(hand_metrics, hand_state), scored |-> 1,
          detail |-> [hand |-> hand_state.hand,
                      score |-> _score_hand_state(hand_metrics, hand_state),
                      expected |-> hand_state.name, metrics |-> hand_metrics]]

\* body of the loop of score_step for one hand state with its extracted
\* metrics: the score appended to step_scores, the entry appended to
\* details['hand_states'], and whether _score_hand_state was called
ScoreOneHandState(hand_metrics, hand_state) ==
    IF Less(hand_metrics.visibility_avg, hand_state.visibility_required)
    THEN [score |-> 20, scored |-> 0,
          detail |-> [hand |-> hand_state.hand, score |-> 20, reason |-> "Low visibility"]]
    ELSE [score |-> _score_hand_state(hand_metrics, hand_state), scored |-> 1,
          detail |-> [hand |-> hand_state.hand,
                      score |-> _score_hand_state(hand_metrics, hand_state),
                      expected |-> hand_state.name, metrics |-> hand_metrics]]

\* a variant of duration_penalty without the 20 point cap
duration_penalty_uncapped(actual_frames, expected_frames) ==
    RScale(100, Rat(Abs(actual_frames - expected_frames), expected_frames + 1))

\* the two duration_penalty assignments of score_step, expected_frames # -1
duration_penalty(actual_frames, expected_frames) ==
    RMin(RInt(20), RScale(100, Rat(Abs(actual_frames - expected_frames), expected_frames + 1)))

\* float(np.mean(step_scores)) if step_scores else 0.0
MeanScore(step_scores) ==
    IF step_scores = <<>> THEN RInt(0) ELSE Rat(SumSeq(step_scores), Len(step_scores))

StepReturn(kind, score, details, scored) ==
    [kind |-> kind, score |-> score, details |-> details, scored |-> scored]

\* the number of _score_hand_state calls of the loop
ScoredCount(evaluated) == SumSeq(Array([k \in 1..(Len(evaluated)) |-> evaluated[k].scored]))

\* score_step after its loop, on the loop's results
StepResult(evaluated, step, actual_frames, penalty) ==
    StepReturn("value",
        RMax(RInt(0), RSub(MeanScore(Array([k \in 1..(Len(evaluated)) |-> evaluated[k].score])),
                           penalty)),
        [step |-> step.order,
         hand_states |-> Array([k \in 1..(Len(evaluated)) |-> evaluated[k].detail]),
         duration_penalty |-> penalty,
         expected_frames |-> step.duration_frames,
         actual_frames |-> actual_frames],
        ScoredCount(evaluated))

EvaluatedHandStates(user_poses, step) ==
    Array([k \in 1..(Len(step.hand_states)) |->
        ScoreOneHandState(extract_hand_position(user_poses, step.hand_states[k].hand),
                          step.hand_states[k])])

\* score_step(user_poses, step): the returned pair, the number of
\* _score_hand_state calls made, or the ZeroDivisionError of
\* expected_frames + 1 = 0 raised after the loop
score_step(user_poses, step) ==
    IF Len(user_poses) = 0
    THEN StepReturn("value", RInt(0), [error |-> "No pose data"], 0)
    ELSE IF step.duration_frames + 1 = 0
    THEN StepReturn("error", RInt(0), [raised |-> "ZeroDivisionError"],
                    ScoredCount(EvaluatedHandStates(user_poses, step)))
    ELSE StepResult(EvaluatedHandStates(user_poses, step), step, Len(user_poses),
                    duration_penalty(Len(user_poses), step.duration_frames))

\* np.linspace(0.8, 1.2, n), every weight multiplied by 10 * max(n - 1, 1)
linspace_weights(n) ==
    Array([i \in 1..n |-> IF n = 1 THEN 8 ELSE 8 * (n - 1) + 4 * (i - 1)])

\* np.average(step_scores, weights=weights); the normalisation of the
\* weights cancels
WeightedAverage(step_scores, weights) ==
    LET total == RSum(Array([i \in 1..(Len(step_scores)) |-> RScale(weights[i], step_scores[i])]))
    IN  Rat(total.n, total.d * SumSeq(weights))

TrickReturn(kind, total_score, details, calls) ==
    [kind |-> kind, total_score |-> total_score, details |-> details, calls |-> calls]

\* score_complete_trick after the length check, on the score_step results
TrickResult(results, difficulty) ==
    IF \E i \in 1..(Len(results)) : results[i].kind = "error"
    THEN TrickReturn("error", RInt(0), [raised |-> "ZeroDivisionError"],
             (CHOOSE i \in 1..(Len(results)) :
                 /\ results[i].kind = "error"
                 /\ \A j \in 1..(i - 1) : results[j].kind # "error"))
    ELSE IF Len(results) = 0
    THEN TrickReturn("error", RInt(0), [raised |-> "ZeroDivisionError"], 0)
    ELSE TrickReturn("value",
             WeightedAverage(Array([i \in 1..(Len(results)) |-> results[i].score]),
                             linspace_weights(Len(results))),
             [total_score |-> WeightedAverage(Array([i \in 1..(Len(results)) |-> results[i].score]),
                                              linspace_weights(Len(results))),
              step_scores |-> Array([i \in 1..(Len(results)) |-> results[i].score]),
              step_details |-> Array([i \in 1..(Len(results)) |-> results[i].details]),
              difficulty |-> difficulty],
             Len(results))

\* a variant of score_complete_trick without the length check: zip pairs the
\* segments with the steps up to the shorter of the two
score_complete_trick_zip_only(user_poses_sequence, trick_steps, difficulty) ==
    TrickResult(Array([i \in 1..Min(Len(user_poses_sequence), Len(trick_steps)) |->
                    score_step(user_poses_sequence[i], trick_steps[i])]),
                difficulty)

\* score_complete_trick(user_poses_sequence, trick): the returned pair and
\* the number of score_step calls made, or the exception that escapes
score_complete_trick(user_poses_sequence, trick_steps, difficulty) ==
    IF Len(user_poses_sequence) # Len(trick_steps)
    THEN TrickReturn("value", RInt(0),
             [error |-> [expected |-> Len(trick_steps), got |-> Len(user_poses_sequence)]], 0)
    ELSE TrickResult(Array([i \in 1..(Len(trick_steps)) |->
                         score_step(user_poses_sequence[i], trick_steps[i])]),
                     difficulty)

-----------------------------------------------------------------------------
(* magic_tricks.py: MagicTrickDefinition construction and JSON              *)
(* serialisation.  A JSON object is the sequence of its <<key, value>>      *)
(* members in the order json.dumps writes them, a JSON array a sequence;    *)
(* json.dumps and json.loads keep strings, integers and finite floats.      *)

\* TrickStep(order, duration_frames, hand_states, description, key_points)
DescribedTrickStep(order, duration_frames, hand_states, description, key_points) ==
    [order |-> order, duration_frames |-> duration_frames, hand_states |-> hand_states,
     description |-> description, key_points |-> key_points]

\* MagicTrickDefinition.__init__(name, difficulty, description, steps)
MagicTrickDefinitionObject(name, difficulty, description, steps) ==
    [name |-> name, difficulty |-> difficulty, description |-> description,
     steps |-> MagicTrickDefinition(steps)]

\* asdict(hs): the six fields in declaration order
asdict(hs) ==
    <<<<"name", hs.name>>, <<"hand", hs.hand>>, <<"position", hs.position>>,
      <<"finger_configuration", hs.finger_configuration>>,
      <<"visibility_required", hs.visibility_required>>,
      <<"tolerance", hs.tolerance>>>>

\* the dictionary to_json builds for one step
StepDictionary(step) ==
    <<<<"order", step.order>>,
      <<"duration_frames", step.duration_frames>>,
      <<"hand_states", Array([k \in 1..(Len(step.hand_states)) |-> asdict(step.hand_states[k])])>>,
      <<"description", step.description>>,
      <<"key_points", step.key_points>>>>

\* the document json.dumps writes for a name, a difficulty, a description and
\* a list of steps
TrickDocument(name, difficulty, description, steps) ==
    <<<<"name", name>>, <<"difficulty", difficulty>>, <<"description", description>>,
      <<"steps", Array([i \in 1..(Len(steps)) |-> StepDictionary(steps[i])])>>>>

\* MagicTrickDefinition.to_json(self)
to_json(self) == TrickDocument(self.name, self.difficulty, self.description, self.steps)

HasKey(object, key) == \E i \in 1..(Len(object)) : object[i][1] = key

\* object[key]
Item(object, key) == object[CHOOSE i \in 1..(Len(object)) : object[i][1] = key][2]

\* object.get(key, default)
GetItem(object, key, default) == IF HasKey(object, key) THEN Item(object, key) ELSE default

\* a variant of HandStateFromJson that leaves the tolerance at its default
HandStateFromJsonDefaultTolerance(hs) ==
    [name |-> Item(hs, "name"), hand |-> Item(hs, "hand"),
     position |-> Item(hs, "position"),
     finger_configuration |-> Item(hs, "finger_configuration"),
     visibility_required |-> GetItem(hs, "visibility_required", default_visibility_required),
     tolerance |-> default_tolerance]

\* from_json lines 70-77: one HandState
HandStateFromJson(hs) ==
    [name |-> Item(hs, "name"), hand |-> Item(hs, "hand"),
     position |-> Item(hs, "position"),
     finger_configuration |-> Item(hs, "finger_configuration"),
     visibility_required |-> GetItem(hs, "visibility_required", default_visibility_required),
     tolerance |-> GetItem(hs, "tolerance", default_tolerance)]

\* from_json lines 68-86: one TrickStep
TrickStepFromJson(step_data) ==
    DescribedTrickStep(
        Item(step_data, "order"), Item(step_data, "duration_frames"),
        Array([k \in 1..(Len(Item(step_data, "hand_states"))) |->
            HandStateFromJson(Item(step_data, "hand_states")[k])]),
        Item(step_data, "description"), Item(step_data, "key_points"))

\* MagicTrickDefinition.from_json(json_str)
from_json(data) ==
    MagicTrickDefinitionObject(
        Item(data, "name"), Item(data, "difficulty"), Item(data, "description"),
        Array([i \in 1..(Len(Item(data, "steps"))) |->
            TrickStepFromJson(Item(data, "steps")[i])]))

-----------------------------------------------------------------------------
(* translator/sign_sequencer.py: SignSequencer timing and interpolation.    *)
(* A sign entry is a dictionary (a record whose keys may be missing), a     *)
(* gloss is the sequence of its characters, times are in seconds.           *)

DEFAULT_SIGN_DURATION == Unit

TRANSITION_DURATION == (3 * Unit) \div 10

HOLD_DURATION == Unit \div 10

QUESTION_HOLD == (3 * Unit) \div 10

NEGATION_HOLD == (2 * Unit) \div 10

EMOTION_MODIFIER == (12 * Unit) \div 10

\* dict.get(key, default)
Get(dict, key, default) == IF key \in DOMAIN dict THEN dict[key] ELSE default

\* word in gloss, for strings
Contains(gloss, word) ==
    \E i \in 1..(Len(gloss) - Len(word) + 1) : SubSeq(gloss, i, i + Len(word) - 1) = word

\* x in list
InList(x, list) == \E i \in 1..(Len(list)) : list[i] = x

\* an optional list: python's None, or the list
None == [is_none |-> TRUE, list |-> <<>>]

Some(list) == [is_none |-> FALSE, list |-> list]

UNKNOWN == <<"U", "N", "K", "N", "O", "W", "N">>

NOT == <<"N", "O", "T">>

HAPPY == <<"H", "A", "P", "P", "Y">>

SAD == <<"S", "A", "D">>

ANGRY == <<"A", "N", "G", "R", "Y">>

type_durations ==
    [noun |-> (8 * Unit) \div 10, verb |-> Unit, adjective |-> (7 * Unit) \div 10,
     adverb |-> (6 * Unit) \div 10, pronoun |-> (5 * Unit) \div 10,
     time |-> (6 * Unit) \div 10, question |-> (12 * Unit) \div 10,
     classifier |-> (15 * Unit) \div 10, fingerspell |-> (4 * Unit) \div 10,
     pointing |-> (4 * Unit) \div 10]

\* the base duration and the two holds of _calculate_sign_duration
HeldDuration(gloss, sign_type, modifiers) ==
    Get(type_durations, sign_type, Unit)
        + (IF Contains(gloss, NOT) \/ InList("negation", modifiers) THEN NEGATION_HOLD ELSE 0)
        + (IF sign_type = "question" THEN QUESTION_HOLD ELSE 0)

\* a variant of EmotionDuration that lengthens adjectives only
EmotionDurationAdjectiveOnly(duration, gloss, sign_type) ==
    IF sign_type = "adjective"
       /\ (Contains(gloss, HAPPY) \/ Contains(gloss, SAD) \/ Contains(gloss, ANGRY))
    THEN (duration * EMOTION_MODIFIER) \div Unit
    ELSE duration

\* the emotion modifier of _calculate_sign_duration
EmotionDuration(duration, gloss, sign_type) ==
    IF sign_type \in {"adjective", "adverb"}
       /\ (Contains(gloss, HAPPY) \/ Contains(gloss, SAD) \/ Contains(gloss, ANGRY))
    THEN (duration * EMOTION_MODIFIER) \div Unit
    ELSE duration

\* a variant of _calculate_sign_duration that adds the letters' time to the
\* duration instead of replacing it
_calculate_sign_duration_adding(sign) ==
    LET gloss == Get(sign, "gloss", <<>>)
        sign_type == Get(sign, "sign_type", "noun")
        modifiers == Get(sign, "modifiers", <<>>)
        duration == EmotionDuration(HeldDuration(gloss, sign_type, modifiers), gloss, sign_type)
    IN  IF Get(sign, "fallback", "None") = "fingerspell"
        THEN duration + (Len(Get(sign, "fingerspell_sequence", <<>>)) * DEFAULT_SIGN_DURATION * 4) \div 10
        ELSE duration

_calculate_sign_duration(sign) ==
    LET gloss == Get(sign, "gloss", <<>>)
        sign_type == Get(sign, "sign_type", "noun")
        modifiers == Get(sign, "modifiers", <<>>)
        duration == EmotionDuration(HeldDuration(gloss, sign_type, modifiers), gloss, sign_type)
    IN  IF Get(sign, "fallback", "None") = "fingerspell"
        THEN (Len(Get(sign, "fingerspell_sequence", <<>>)) * DEFAULT_SIGN_DURATION * 4) \div 10
        ELSE duration

\* current_time at the start of every entry: the running sum of the loop of
\* calculate_timing
StartTimes(durations) ==
    LET start[i \in 1..(Len(durations))] ==
            IF i = 1 THEN 0
            ELSE start[i - 1] + durations[i - 1] + TRANSITION_DURATION
    IN  Array(start)

\* a variant of TimelineEntry that also charges a transition to the first entry
TimelineEntryLeadingGap(sign, i, n, start, duration) ==
    [gloss |-> Get(sign, "gloss", UNKNOWN),
     start_time |-> start + TRANSITION_DURATION,
     end_time |-> start + TRANSITION_DURATION + duration,
     duration |-> duration,
     transition_in |-> TRANSITION_DURATION,
     transition_out |-> IF i < n THEN TRANSITION_DURATION ELSE 0]

\* the entry of the i-th of n signs (i counts from 1)
TimelineEntry(sign, i, n, start, duration) ==
    [gloss |-> Get(sign, "gloss", UNKNOWN),
     start_time |-> start,
     end_time |-> start + duration,
     duration |-> duration,
     transition_in |-> IF i > 1 THEN TRANSITION_DURATION ELSE 0,
     transition_out |-> IF i < n THEN TRANSITION_DURATION ELSE 0]

Timeline(sign_sequence, durations, starts) ==
    Array([i \in 1..(Len(sign_sequence)) |->
        TimelineEntry(sign_sequence[i], i, Len(sign_sequence), starts[i], durations[i])])

\* a variant of TimingOf that adds a transition after the last entry as well
TimingOfTrailingGap(timeline) ==
    [total_duration |->
        IF timeline = <<>> THEN 0
        ELSE timeline[Len(timeline)].end_time + TRANSITION_DURATION,
     timeline |-> timeline,
     sign_count |-> Len(timeline),
     average_sign_duration |->
        IF timeline = <<>> THEN 0
        ELSE SumSeq(Array([i \in 1..(Len(timeline)) |-> timeline[i].duration])) \div Len(timeline)]

\* the dictionary returned by calculate_timing; current_time after the loop
\* is the end of the last entry
TimingOf(timeline) ==
    [total_duration |-> IF timeline = <<>> THEN 0 ELSE timeline[Len(timeline)].end_time,
     timeline |-> timeline,
     sign_count |-> Len(timeline),
     average_sign_duration |->
        IF timeline = <<>> THEN 0
        ELSE SumSeq(Array([i \in 1..(Len(timeline)) |-> timeline[i].duration])) \div Len(timeline)]

SignDurations(sign_sequence) ==
    Array([i \in 1..(Len(sign_sequence)) |-> _calculate_sign_duration(sign_sequence[i])])

TimelineOf(sign_sequence, durations) ==
    Timeline(sign_sequence, durations, StartTimes(durations))

calculate_timing(sign_sequence) ==
    TimingOf(TimelineOf(sign_sequence, SignDurations(sign_sequence)))

\* a variant of _interpolate_poses whose steps are 1 / n_frames wide
_interpolate_poses_short(pose_a, pose_b, n_frames) ==
    Array([t \in 1..n_frames |->
        LET alpha == ((t - 1) * Unit) \div n_frames
        IN  [l \in DOMAIN pose_a |->
                Array([c \in 1..3 |->
                    (pose_a[l][c] * (Unit - alpha) + pose_b[l][c] * alpha) \div Unit])]])

\* _interpolate_poses(pose_a, pose_b, n_frames); t counts from 1 here
_interpolate_poses(pose_a, pose_b, n_frames) ==
    Array([t \in 1..n_frames |->
        LET alpha == IF n_frames > 1 THEN ((t - 1) * Unit) \div (n_frames - 1) ELSE 0
        IN  [l \in DOMAIN pose_a |->
                Array([c \in 1..3 |->
                    (pose_a[l][c] * (Unit - alpha) + pose_b[l][c] * alpha) \div Unit])]])

\* bool(poses): neither None nor an empty list
Truthy(poses) == ~poses.is_none /\ poses.list # <<>>

\* the dictionary appended for the pair (i, i + 1), both with poses
Interpolation(current_sign, next_sign) ==
    [from_sign |-> current_sign.gloss,
     to_sign |-> next_sign.gloss,
     duration |-> TRANSITION_DURATION,
     frames |-> _interpolate_poses(current_sign.poses.list[Len(current_sign.poses.list)],
                                   next_sign.poses.list[1],
                                   (TRANSITION_DURATION * 30) \div Unit)]

\* generate_interpolation(sign_sequence): the loop over the adjacent pairs
RECURSIVE generate_interpolation(_)
generate_interpolation(sign_sequence) ==
    IF Len(sign_sequence) < 2 THEN <<>>
    ELSE LET n == Len(sign_sequence)
             earlier == generate_interpolation(SubSeq(sign_sequence, 1, n - 1))
         IN  IF Truthy(Get(sign_sequence[n - 1], "poses", None))
                /\ Truthy(Get(sign_sequence[n], "poses", None))
             THEN Append(earlier, Interpolation(sign_sequence[n - 1], sign_sequence[n]))
             ELSE earlier

-----------------------------------------------------------------------------
(* Concurrent scoring calls.  The calls share the configuration tables of   *)
(* shared/config.py and the constants of the MagicTrickScorer; everything   *)
(* else a call touches is its own.  A step of a call is one call of         *)
(* compare_sign_sequences or of score_step, or the bookkeeping around them; *)
(* it returns the tables it leaves and its result.                          *)

\* the tables as loaded: DTW_CONFIG, LANDMARK_INDICES, MagicTrickScorer.__init__
LoadedTables ==
    [DTW_CONFIG |-> [visibility_threshold |-> visibility_threshold,
                     max_distance |-> max_distance,
                     use_hand_focus |-> use_hand_focus_default,
                     use_fast_dtw |-> use_fast_dtw],
     LANDMARK_INDICES |-> LANDMARK_INDICES,
     scorer |-> [RIGHT_WRIST |-> RIGHT_WRIST, LEFT_WRIST |-> LEFT_WRIST,
                 RIGHT_HAND_LANDMARKS |-> RIGHT_HAND_LANDMARKS,
                 LEFT_HAND_LANDMARKS |-> LEFT_HAND_LANDMARKS,
                 NECK |-> NECK, RIGHT_SHOULDER |-> RIGHT_SHOULDER, MOUTH |-> MOUTH]]

\* the operators of this model compute with the loaded tables; a call that
\* reads other tables computes something else
UnderTables(tables, outcome) ==
    IF tables = LoadedTables THEN outcome ELSE [kind |-> "other tables"]

\* a variant of ResolveDefaults that stores the resolved use_hand_focus in DTW_CONFIG
ResolveDefaultsStoring(tables, arguments) ==
    [tables |-> [tables EXCEPT !.DTW_CONFIG.use_hand_focus =
                    IF arguments.use_hand_focus = "None"
                    THEN tables.DTW_CONFIG.use_hand_focus
                    ELSE arguments.use_hand_focus = "True"],
     visibility_threshold |-> tables.DTW_CONFIG.visibility_threshold,
     use_hand_focus |->
        IF arguments.use_hand_focus = "None" THEN tables.DTW_CONFIG.use_hand_focus
        ELSE arguments.use_hand_focus = "True"]

\* compare_sign_sequences lines 169-172 for visibility_threshold=None: the
\* defaults are read from DTW_CONFIG into locals
ResolveDefaults(tables, arguments) ==
    [tables |-> tables,
     visibility_threshold |-> tables.DTW_CONFIG.visibility_threshold,
     use_hand_focus |->
        IF arguments.use_hand_focus = "None" THEN tables.DTW_CONFIG.use_hand_focus
        ELSE arguments.use_hand_focus = "True"]

ComparedWith(resolved, arguments) ==
    [tables |-> resolved.tables,
     ret |-> UnderTables(resolved.tables,
                 compare_sign_sequences(arguments.reference_poses, arguments.user_poses,
                     resolved.visibility_threshold, arguments.method,
                     resolved.use_hand_focus, TRUE, TRUE, arguments.resampled))]

\* one call of compare_sign_sequences by a thread
CompareStep(tables, arguments) == ComparedWith(ResolveDefaults(tables, arguments), arguments)

CompareArguments(reference_poses, user_poses, method, use_hand_focus, resampled) ==
    [reference_poses |-> reference_poses, user_poses |-> user_poses, method |-> method,
     use_hand_focus |-> use_hand_focus, resampled |-> resampled]

\* the k-th comparison of calculate_accuracy_metrics (lines 248-267)
MetricsComparison(k, arguments) ==
    IF k = 1 THEN CompareArguments(arguments.reference_poses, arguments.user_poses,
                                   "dtw", "False", arguments.resampled)
    ELSE IF k = 2 THEN CompareArguments(arguments.reference_poses, arguments.user_poses,
                                        "dtw", "True", arguments.resampled)
    ELSE IF k = 3 THEN CompareArguments(
                           focus_on_body_part(arguments.reference_poses, "upper_body"),
                           focus_on_body_part(arguments.user_poses, "upper_body"),
                           "dtw", "False", arguments.resampled)
    ELSE CompareArguments(arguments.reference_poses, arguments.user_poses,
                          "euclidean", "False", arguments.resampled)

\* one of the four comparisons of calculate_accuracy_metrics by a thread
MetricsStep(tables, k, arguments) == CompareStep(tables, MetricsComparison(k, arguments))

\* calculate_accuracy_metrics lines 269-279, on the four scores
MetricsAssembled(scores, arguments) ==
    IF \E k \in 1..4 : scores[k].kind = "other tables" THEN [kind |-> "other tables"]
    ELSE MetricsOf(scores[1], scores[2], scores[3], scores[4],
                   Len(arguments.reference_poses), Len(arguments.user_poses))

\* one call of score_step by a thread: it reads the scorer's constants
ScoreStepStep(tables, user_poses, step) ==
    [tables |-> tables, ret |-> UnderTables(tables, score_step(user_poses, step))]

\* score_complete_trick after its loop, on the results of the score_step calls
TrickAssembled(step_results, difficulty) ==
    IF \E i \in 1..(Len(step_results)) : step_results[i].kind = "other tables"
    THEN [kind |-> "other tables"]
    ELSE TrickResult(step_results, difficulty)

-----------------------------------------------------------------------------
(* numpy arrays in memory.  The memory is a sequence of buffers; an ndarray *)
(* is a reference to a buffer, seen in the buffer's own shape or, after     *)
(* reshape, flattened.  A call returns the memory it leaves and its result. *)

Ref(buf, flat) == [buf |-> buf, flat |-> flat]

\* the inverse of flatten_poses: (n_frames, num_landmarks*3) -> (n_frames, num_landmarks, 3)
Unflatten(rows) ==
    Array([f \in 1..(Len(rows)) |->
        [l \in 0..((Len(rows[f]) \div 3) - 1) |->
            <<rows[f][3 * l + 1], rows[f][3 * l + 2], rows[f][3 * l + 3]>>]])

\* the elements of an ndarray
Read(mem, ref) == IF ref.flat THEN flatten_poses(mem[ref.buf]) ELSE mem[ref.buf]

\* an assignment to elements of an ndarray writes its buffer
Store(mem, ref, elements) ==
    [mem EXCEPT ![ref.buf] = IF ref.flat THEN Unflatten(elements) ELSE elements]

Allocated(mem, elements) ==
    [mem |-> Append(mem, elements), ret |-> Ref(Len(mem) + 1, FALSE)]

ArrayResult(ref) == [kind |-> "array", ref |-> ref]

Failure(error) == [kind |-> "raised", error |-> error]

copy_by_reference(mem, ref) == [mem |-> mem, ret |-> ref]

\* poses.copy(): a new buffer with the elements of poses
copy(mem, ref) == Allocated(mem, Read(mem, ref))

\* np.zeros_like(poses) for poses of shape (n_frames, num_landmarks, 3)
zeros_like(mem, ref) ==
    Allocated(mem, Array([f \in 1..(Len(Read(mem, ref))) |->
                       [l \in DOMAIN Read(mem, ref)[f] |-> <<0, 0, 0>>]]))

\* poses.reshape(n_frames, -1) of a contiguous array is a view of its buffer
reshape(mem, ref) == [mem |-> mem, ret |-> Ref(ref.buf, TRUE)]

\* filter_poses_by_visibility lines 45-48, on the array named filtered
FilterInto(mem, filtered, threshold) ==
    [mem |-> Store(mem, filtered,
                   filter_poses_by_visibility(Read(mem, filtered), threshold)),
     ret |-> ArrayResult(filtered)]

\* filter_poses_by_visibility(poses, visibility_threshold) in memory
filter_poses_by_visibility_call(mem, poses, threshold) ==
    FilterInto(copy(mem, poses).mem, copy(mem, poses).ret, threshold)

\* normalize_poses lines 64-79, on the array named poses_clean: np.min of an
\* empty column raises ValueError
NormalizeInto(mem, poses_clean) ==
    IF Len(Read(mem, poses_clean)) = 0
    THEN [mem |-> mem, ret |-> Failure("ValueError")]
    ELSE [mem |-> Store(mem, poses_clean, normalize_poses(Read(mem, poses_clean))),
          ret |-> ArrayResult(poses_clean)]

\* normalize_poses(poses) in memory
normalize_poses_call(mem, poses) ==
    NormalizeInto(copy(mem, poses).mem, copy(mem, poses).ret)

\* a variant of FocusInto that copies the coordinates of a landmark but not its
\* visibility
FocusIntoCoordinatesOnly(mem, focused, poses, part) ==
    [mem |-> Store(mem, focused,
                   Array([f \in 1..(Len(Read(mem, poses))) |->
                       [l \in DOMAIN Read(mem, poses)[f] |->
                           IF l \in LANDMARK_INDICES[part]
                           THEN <<Read(mem, poses)[f][l][1], Read(mem, poses)[f][l][2],
                                  Read(mem, focused)[f][l][3]>>
                           ELSE Read(mem, focused)[f][l]]])),
     ret |-> ArrayResult(focused)]

\* focus_on_body_part lines 225-229, on the array named focused
FocusInto(mem, focused, poses, part) ==
    [mem |-> Store(mem, focused,
                   Array([f \in 1..(Len(Read(mem, poses))) |->
                       [l \in DOMAIN Read(mem, poses)[f] |->
                           IF l \in LANDMARK_INDICES[part]
                           THEN Read(mem, poses)[f][l]
                           ELSE Read(mem, focused)[f][l]]])),
     ret |-> ArrayResult(focused)]

\* focus_on_body_part(poses, part) in memory, of pose_comparison.py and of
\* pose_extraction.py: both raise ValueError for a part that is no key of
\* LANDMARK_INDICES, before anything is allocated
focus_on_body_part_call(mem, poses, part) ==
    IF part \notin DOMAIN LANDMARK_INDICES
    THEN [mem |-> mem, ret |-> Failure("ValueError")]
    ELSE FocusInto(zeros_like(mem, poses).mem, zeros_like(mem, poses).ret, poses, part)

\* euclidean_distance(ref_poses, user_poses) in memory: for different lengths
\* the resampled signal is written to a new array, np.zeros((n_ref, dim)),
\* and the arguments are only read
euclidean_distance_call(mem, ref_poses, user_poses, resampled) ==
    [mem |-> IF Len(Read(mem, user_poses)) # Len(Read(mem, ref_poses))
             THEN Allocated(mem,
                      Array([f \in 1..(Len(Read(mem, ref_poses))) |->
                          Array([i \in 1..(Len(Read(mem, ref_poses)[f])) |-> 0])])).mem
             ELSE mem,
     ret |-> euclidean_distance(Read(mem, ref_poses), Read(mem, user_poses), resampled)]

\* dtw_distance(ref_poses, user_poses, use_fast) in memory: dtaidistance and
\* fastdtw read their arguments
dtw_distance_call(mem, ref_poses, user_poses, fast, dtai, fdtw, resampled) ==
    IF ~dtai THEN euclidean_distance_call(mem, ref_poses, user_poses, resampled)
    ELSE [mem |-> mem,
          ret |-> dtw_distance(Read(mem, ref_poses), Read(mem, user_poses), fast,
                               dtai, fdtw, resampled)]

\* the memory and the two arrays a comparison works on
Pair(mem, a, b) == [mem |-> mem, a |-> a, b |-> b]

\* the pair left by the same call on the first array and then on the second
Paired(first, second) == Pair(second.mem, first.ret.ref, second.ret.ref)

FocusUser(st, first, part) ==
    Paired(first, focus_on_body_part_call(first.mem, st.b, part))

\* focus_on_body_part of the reference, then of the user poses
FocusBoth(st, part) == FocusUser(st, focus_on_body_part_call(st.mem, st.a, part), part)

FilterUser(st, first, threshold) ==
    Paired(first, filter_poses_by_visibility_call(first.mem, st.b, threshold))

\* compare_sign_sequences lines 183-184
FilterBoth(st, threshold) ==
    FilterUser(st, filter_poses_by_visibility_call(st.mem, st.a, threshold), threshold)

\* compare_sign_sequences lines 187-188: flatten_poses returns views
ReshapeBoth(st) == Pair(st.mem, reshape(st.mem, st.a).ret, reshape(st.mem, st.b).ret)

NormalizeUser(st, first) == Paired(first, normalize_poses_call(first.mem, st.b))

\* compare_sign_sequences lines 191-192
NormalizeBoth(st) == NormalizeUser(st, normalize_poses_call(st.mem, st.a))

\* compare_sign_sequences lines 195-206, on the normalised arrays
ComparedArrays(st, method, dtai, fdtw, resampled) ==
    [mem |-> st.mem,
     ret |-> DistanceScore(Read(st.mem, st.a), Read(st.mem, st.b), method, dtai,
                           fdtw, resampled)]

\* compare_sign_sequences(reference_poses, user_poses, visibility_threshold,
\*                        method, use_hand_focus) in memory
compare_sign_sequences_call(st, threshold, method, use_hand_focus, dtai, fdtw, resampled) ==
    IF Len(Read(st.mem, st.a)) = 0 \/ Len(Read(st.mem, st.b)) = 0
    THEN [mem |-> st.mem, ret |-> Compared("value", 0, 0)]
    ELSE ComparedArrays(
             NormalizeBoth(ReshapeBoth(FilterBoth(
                 IF use_hand_focus THEN FocusBoth(st, "hands") ELSE st, threshold))),
             method, dtai, fdtw, resampled)

MetricsEuclidean(st, dtw, hand, upper, eucl) ==
    [mem |-> eucl.mem,
     ret |-> MetricsOf(dtw.ret, hand.ret, upper.ret, eucl.ret,
                       Len(Read(st.mem, st.a)), Len(Read(st.mem, st.b)))]

MetricsUpper(st, dtw, hand, upper, dtai, fdtw, resampled) ==
    MetricsEuclidean(st, dtw, hand, upper,
        compare_sign_sequences_call(Pair(upper.mem, st.a, st.b), visibility_threshold,
                                    "euclidean", FALSE, dtai, fdtw, resampled))

MetricsFocused(st, dtw, hand, focused, dtai, fdtw, resampled) ==
    MetricsUpper(st, dtw, hand,
        compare_sign_sequences_call(focused, visibility_threshold, "dtw", FALSE,
                                    dtai, fdtw, resampled),
        dtai, fdtw, resampled)

MetricsHand(st, dtw, hand, dtai, fdtw, resampled) ==
    MetricsFocused(st, dtw, hand, FocusBoth(Pair(hand.mem, st.a, st.b), "upper_body"),
                   dtai, fdtw, resampled)

MetricsDtw(st, dtw, dtai, fdtw, resampled) ==
    MetricsHand(st, dtw,
        compare_sign_sequences_call(Pair(dtw.mem, st.a, st.b), visibility_threshold,
                                    "dtw", TRUE, dtai, fdtw, resampled),
        dtai, fdtw, resampled)

\* calculate_accuracy_metrics(reference_poses, user_poses) in memory: the four
\* comparisons one after the other
calculate_accuracy_metrics_call(st, dtai, fdtw, resampled) ==
    MetricsDtw(st,
        compare_sign_sequences_call(st, visibility_threshold, "dtw", FALSE, dtai,
                                    fdtw, resampled),
        dtai, fdtw, resampled)

\* score_step(user_poses, step) in memory: the segment is only read
score_step_call(mem, user_poses, step) ==
    [mem |-> mem, ret |-> score_step(Read(mem, user_poses), step)]

-----------------------------------------------------------------------------
(* Progress records (database.py): the rows of one (user, content) pair in  *)
(* the tables user_progress and user_progress_v2                            *)

\* score from which update_user_progress_unified marks the content completed
CompletionScore == 70

\* a row of a progress table; completed_at is TRUE when a timestamp is stored
ProgressRow(id, best_score, attempts, completed, completed_at) ==
    [id |-> id, best_score |-> best_score, attempts |-> attempts,
     completed |-> completed, completed_at |-> completed_at]

\* cursor.fetchone() when the SELECT matched no row
NoRow == [id |-> 0]

\* cursor.execute('SELECT id, best_score, attempts ... WHERE user_id = ? AND
\* ... = ?'); cursor.fetchone(): the first matching row, of which only the
\* columns id, best_score and attempts are selected
fetchone(table) ==
    IF table = <<>> THEN NoRow
    ELSE [id |-> table[1].id, best_score |-> table[1].best_score,
          attempts |-> table[1].attempts]

\* the outcome of the statements after the SELECT: the table as committed, or
\* the exception raised before any statement ran
Committed(table) == [table |-> table, error |-> "none"]
Uncommitted(table, error) == [table |-> table, error |-> error]

\* UPDATE ... SET best_score = ?, attempts = ?, completed = ?,
\* completed_at = COALESCE(completed_at, ?) WHERE user_id = ? AND ... = ?:
\* every row of the pair is set
UpdateRows(table, best_score, attempts, completed, completed_at) ==
    [i \in 1..Len(table) |->
        ProgressRow(table[i].id, best_score, attempts, completed,
                    table[i].completed_at \/ completed_at)]

\* INSERT INTO ... VALUES (...): a new row with the next AUTOINCREMENT id
InsertRow(table, score, completed, completed_at) ==
    Append(table, ProgressRow(Len(table) + 1, score, 1, completed, completed_at))

\* save_user_progress after its SELECT (lines 148-168): existing is the row
\* fetched; existing['completed'] names a column that was not selected, so
\* evaluating it raises IndexError (it is evaluated only when completed is
\* true)
save_user_progress_write(table, existing, score, completed) ==
    IF existing # NoRow
    THEN IF completed
         THEN Uncommitted(table, "IndexError")
         ELSE Committed(UpdateRows(table, Max(existing.best_score, score),
                                   existing.attempts + 1, completed, FALSE))
    ELSE Committed(InsertRow(table, score, completed, completed))

\* save_user_progress(user_id, sign_id, score, completed)
save_user_progress(table, score, completed) ==
    save_user_progress_write(table, fetchone(table), score, completed)

\* update_user_progress_unified after its SELECT (lines 416-443):
\* existing.get is no attribute of sqlite3.Row, so evaluating it raises
\* AttributeError (it is evaluated only when the score completes the
\* content); unique says whether the table enforces one row per pair, in
\* which case a second INSERT raises IntegrityError
update_user_progress_unified_write(table, existing, score, unique) ==
    LET completed == score >= CompletionScore IN
    IF existing # NoRow
    THEN IF completed
         THEN Uncommitted(table, "AttributeError")
         ELSE Committed(UpdateRows(table, Max(existing.best_score, score),
                                   existing.attempts + 1, completed, FALSE))
    ELSE IF unique /\ table # <<>>
    THEN Uncommitted(table, "IntegrityError")
    ELSE Committed(InsertRow(table, score, completed, completed))

\* update_user_progress_unified(user_id, content_id, score, stars)
update_user_progress_unified(table, score, unique) ==
    update_user_progress_unified_write(table, fetchone(table), score, unique)

-----------------------------------------------------------------------------
(* AuslanGrammar (translator/grammar.py): gloss tokens, topic-comment order *)
(* and spatial indexing                                                     *)

\* GlossToken; spatial_index 0 stands for None
GlossToken(gloss, sign_type, english_source) ==
    [gloss |-> gloss, sign_type |-> sign_type, english_source |-> english_source,
     spatial_index |-> 0]

TIME_WORDS == {"yesterday"}
QUESTION_WORDS == {"what"}
DROPPED_WORDS == {"the"}

\* GLOSS_MAP.get(word, word.upper()) for the words of the model
GLOSS_MAP(word) ==
    CASE word = "yesterday" -> "YESTERDAY"
      [] word = "i" -> "IX-1"
      [] word = "he" -> "IX-3a"
      [] word = "go" -> "GO-TO"
      [] word = "what" -> "WHAT"
      [] word = "dog" -> "DOG"
      [] word = "cat" -> "CAT"
      [] word = "bird" -> "BIRD"
      [] OTHER -> "UNKNOWN"

\* _pos_to_sign_type(pos, word)
_pos_to_sign_type(pos, word) ==
    IF word \in TIME_WORDS THEN "time"
    ELSE IF word \in QUESTION_WORDS THEN "question"
    ELSE IF pos \in {"NN", "NNS", "NNP"} THEN "noun"
    ELSE IF pos \in {"VB", "VBD", "VBG", "VBN", "VBP", "VBZ"} THEN "verb"
    ELSE IF pos \in {"JJ", "JJR", "JJS"} THEN "adjective"
    ELSE IF pos \in {"RB", "RBR", "RBS"} THEN "adverb"
    ELSE IF pos \in {"PRP", "PRP$"} THEN "pronoun"
    ELSE "noun"

\* Step 1 of english_to_gloss: _word_to_gloss of every (word, pos), the
\* dropped words skipped
RECURSIVE WordsToGloss(_)
WordsToGloss(pos_tags) ==
    IF pos_tags = <<>> THEN <<>>
    ELSE LET word == Head(pos_tags)[1]
             pos == Head(pos_tags)[2]
         IN  IF word \in DROPPED_WORDS THEN WordsToGloss(Tail(pos_tags))
             ELSE <<GlossToken(GLOSS_MAP(word), _pos_to_sign_type(pos, word), word)>>
                  \o WordsToGloss(Tail(pos_tags))

\* [t for t in tokens if t.sign_type == sign_type]
OfType(toks, sign_type) ==
    LET Is(t) == t.sign_type = sign_type IN SelectSeq(toks, Is)

\* [t for t in tokens if t.sign_type not in (TIME, QUESTION)]
OtherTokens(toks) ==
    LET Is(t) == t.sign_type \notin {"time", "question"} IN SelectSeq(toks, Is)

\* positions of the nouns of a token list
NounPositions(toks) == {i \in 1..Len(toks) : toks[i].sign_type = "noun"}

\* a token list without its i-th token
Without(toks, i) ==
    [k \in 1..(Len(toks) - 1) |-> IF k < i THEN toks[k] ELSE toks[k + 1]]

FirstOf(S) == CHOOSE i \in S : \A j \in S : i <= j

\* a variant of _reorder_topic_comment that takes every noun as the topic
_reorder_topic_comment_all_nouns(toks) ==
    LET other_tokens == OtherTokens(toks)
        NotNoun(t) == t.sign_type # "noun"
    IN  OfType(toks, "time") \o OfType(other_tokens, "noun")
            \o SelectSeq(other_tokens, NotNoun) \o OfType(toks, "question")

\* _reorder_topic_comment(tokens): time markers, the first noun of the other
\* tokens as topic, the other tokens in their order, question words
_reorder_topic_comment(toks) ==
    LET other_tokens == OtherTokens(toks)
        nouns == NounPositions(other_tokens)
        topic == IF nouns = {} THEN <<>> ELSE <<other_tokens[FirstOf(nouns)]>>
        comment == IF nouns = {} THEN other_tokens
                   ELSE Without(other_tokens, FirstOf(nouns))
    IN  OfType(toks, "time") \o topic \o comment \o OfType(toks, "question")

\* The spatial state of the grammar object: spatial_indices is the dictionary
\* in insertion order, as a list of (gloss, index)
SpatialState(indices, next) == [spatial_indices |-> indices, next_spatial_index |-> next]

\* __init__ and the reset at the start of _apply_spatial_indexing
FreshSpatial == SpatialState(<<>>, 3)

\* a variant of the reset that keeps the state of the earlier call
ResetSpatialKept(state) == state

\* lines 341-343: self.spatial_indices = {}; self.next_spatial_index = 3
ResetSpatial(state) == FreshSpatial

\* f'IX-{ref}'
IxGloss(ref) ==
    CASE ref = 3 -> "IX-3" [] ref = 4 -> "IX-4" [] ref = 5 -> "IX-5"
      [] OTHER -> "IX-n"

\* '3' in token.gloss
HasThree(gloss) == gloss \in {"IX-3a", "IX-3i", "IX-3pl", "IX-3"}

\* one iteration of the loop of _apply_spatial_indexing (lines 347-366): the
\* state and the token after it
IndexToken(state, token) ==
    LET indices == state.spatial_indices
        next == state.next_spatial_index
        known == {indices[i][1] : i \in 1..Len(indices)}
    IN  IF token.sign_type = "noun" /\ token.gloss \notin known
        THEN [state |-> SpatialState(Append(indices, <<token.gloss, next>>),
                                     IF next + 1 > 5 THEN 3 ELSE next + 1),
              token |-> [token EXCEPT !.spatial_index = next]]
        ELSE IF token.sign_type = "pronoun" /\ HasThree(token.gloss) /\ indices # <<>>
        THEN LET ref == indices[Len(indices)][2]
             IN  [state |-> state,
                  token |-> [token EXCEPT !.spatial_index = ref, !.gloss = IxGloss(ref)]]
        ELSE [state |-> state, token |-> token]

\* the loop of _apply_spatial_indexing from a state on: the tokens indexed
RECURSIVE IndexTokens(_, _)
IndexTokens(state, toks) ==
    IF toks = <<>> THEN <<>>
    ELSE LET first == IndexToken(state, Head(toks))
         IN  <<first.token>> \o IndexTokens(first.state, Tail(toks))

\* english_to_gloss(words, pos_tags) on a grammar object just constructed
english_to_gloss(pos_tags) ==
    IndexTokens(FreshSpatial, _reorder_topic_comment(WordsToGloss(pos_tags)))

-----------------------------------------------------------------------------
(* Bounds and input sets *)

\* distances fed to the score conversion: 0, 0.5, ..., MaxDistanceSteps / 2
MaxDistanceSteps == 24

DistanceValues == {(k * Unit) \div 2 : k \in 0..MaxDistanceSteps}

\* longest flattened sequence handed to dtw_distance
MaxDtwFrames == 3

\* feature vectors of the flattened sequences (n_frames, 2)
FirstFeature == <<0, Unit \div 2>>
SecondFeature == <<Unit, Unit \div 4>>
FeatureVectors == {FirstFeature, SecondFeature}

RECURSIVE SeqsUpTo(_, _)
SeqsUpTo(S, n) ==
    IF n = 0 THEN {<<>>}
    ELSE LET shorter == SeqsUpTo(S, n - 1)
         IN  shorter \cup {Append(s, x) : s \in {t \in shorter : Len(t) = n - 1}, x \in S}

NoResult == [kind |-> "none", value |-> 0]

\* longest pose sequence handed to calculate_accuracy_metrics
MaxPoseFrames == 2

\* Frames of 33 landmarks: a steady pose with every landmark visible, and a
\* different pose in which every third landmark is below the visibility
\* threshold.
PoseFrame(p) ==
    [l \in Landmarks |->
        IF p = 1 THEN <<100 + 20 * l, 900 - 20 * l, 900>>
        ELSE <<700 - 15 * l, 200 + 5 * l, IF l % 3 = 0 THEN 400 ELSE 950>>]

PoseFrames == {PoseFrame(1), PoseFrame(2)}

NoMetrics == [none |-> 0]

\* candidate segments of score_step have 0, 1, 10, 20, ..., 10 * MaxFrameBlocks frames
MaxFrameBlocks == 3

FrameCounts == {0, 1} \cup {10 * b : b \in 1..MaxFrameBlocks}

\* A frame of a trick performance: the right hand's landmarks span a box of
\* the given spread below and right of the wrist and carry the given
\* visibility (a nan spread: the hand's landmarks are nan, as the visibility
\* filter leaves them); the left wrist is at the same height, fully visible.
TrickFrame(spread, wrist_y, vis) ==
    [l \in Landmarks |->
        IF l = NECK THEN <<500, 300, 900>>
        ELSE IF l = MOUTH THEN <<500, 250, 900>>
        ELSE IF l = RIGHT_SHOULDER THEN <<400, 350, 900>>
        ELSE IF l = LEFT_WRIST THEN <<450, wrist_y, 900>>
        ELSE IF l >= RIGHT_WRIST /\ l <= RIGHT_WRIST + 6
        THEN (IF IsNaN(spread) THEN <<NaN, NaN, NaN>>
              ELSE <<500 + (spread * (l - RIGHT_WRIST)) \div 6,
                     wrist_y + (spread * (l - RIGHT_WRIST)) \div 6, vis>>)
        ELSE <<500, 500, 900>>]

HiddenHandFrame == TrickFrame(NaN, 400, 900)

TrickFrames ==
    {TrickFrame(s, y, v) : s \in {30, 150, 195, 270}, y \in {100, 200, 400, 700}, v \in {600, 900}}
        \cup {HiddenHandFrame}

\* a segment of n frames alternating between two frames
Segment(n, a, b) == Array([f \in 1..n |-> IF f % 2 = 1 THEN a ELSE b])

\* steady segments, and segments in which a well visible hand is lost in
\* every second frame
Segments ==
    {Segment(n, a, a) : n \in FrameCounts, a \in TrickFrames}
        \cup {Segment(n, a, HiddenHandFrame) :
                  n \in FrameCounts, a \in {b \in TrickFrames : b[RIGHT_WRIST][3] = 900}}

\* most hand states of one step
MaxHandStates == 2

\* first hand state of create_card_force
cards_held == HandState("cards_held", "both", "chest_level", "spread", default_visibility_required)

HandStates ==
    {HandState("expected", "right", p, c, default_visibility_required) :
        p \in {"chest_level", "face_level"},
        c \in {"open", "closed", "pinched", "spread", "relaxed"}} \cup {cards_held}

HandStateLists ==
    {<<>>} \cup {<<h>> \o Array([k \in 1..more |-> cards_held]) :
                    h \in HandStates, more \in 0..(MaxHandStates - 1)}

DurationValues == {0 - 3, 0 - 1, 0, 10, 29}

Steps == {TrickStep(1, d, hs) : d \in DurationValues, hs \in HandStateLists}

\* most steps of a trick, most candidate segments of a call
MaxTrickSteps == 3

MaxSegments == 3

\* the first three steps of create_coin_vanish
coin_vanish_steps ==
    {TrickStep(1, 10, <<HandState("palm_open", "right", "chest_level", "open", (8 * Unit) \div 10)>>),
     TrickStep(2, 15, <<HandState("closing", "right", "chest_level", "closed", (7 * Unit) \div 10)>>),
     TrickStep(3, 20, <<HandState("fist_closed", "right", "face_level", "closed", (6 * Unit) \div 10)>>)}

Tricks == {MagicTrickDefinition(steps) : steps \in SeqsUpTo(coin_vanish_steps, MaxTrickSteps)}

CandidateSegments ==
    {<<>>,
     Segment(10, TrickFrame(270, 400, 900), TrickFrame(270, 400, 900)),
     Segment(15, TrickFrame(30, 400, 900), TrickFrame(30, 200, 900))}

NoStep == TrickStep(0, 0, <<>>)

IdleStep ==
    /\ step_input = NoStep /\ segment_input = <<>>
    /\ step_score = RInt(0) /\ step_details = NoMetrics
    /\ score_hand_state_calls = 0

IdleTrick ==
    /\ trick_input = <<>> /\ segments_input = <<>>
    /\ trick_score = RInt(0) /\ trick_details = NoMetrics
    /\ score_step_calls = 0

\* most sign entries of a sequence handed to the sequencer
MaxSigns == 3

\* str.lower() on the letters of the glosses
LowerChar ==
    [A |-> "a", D |-> "d", G |-> "g", H |-> "h", L |-> "l", N |-> "n",
     O |-> "o", P |-> "p", S |-> "s", T |-> "t", Y |-> "y"]

Lower(gloss) == Array([i \in 1..(Len(gloss)) |-> Get(LowerChar, gloss[i], gloss[i])])

\* the dictionary _lookup_single_sign returns for a sign found in the database
FoundSign(gloss, sign_type, modifiers, poses) ==
    [found |-> TRUE, gloss |-> gloss, poses |-> poses, sign_type |-> sign_type,
     modifiers |-> modifiers]

\* the dictionary _lookup_single_sign returns for a sign to be fingerspelled
FallbackSign(gloss, sign_type) ==
    [found |-> FALSE, gloss |-> gloss, fallback |-> "fingerspell",
     fingerspell_sequence |-> Lower(gloss), sign_type |-> sign_type]

GO == <<"G", "O">>

SADLY == <<"S", "A", "D", "L", "Y">>

Glosses == {GO, NOT, SADLY, HAPPY}

\* SignType values, and the 'unknown' of a token without sign_type
SignTypes ==
    {"noun", "verb", "adjective", "adverb", "pronoun", "time", "question",
     "classifier", "fingerspell", "pointing", "unknown"}

AllSigns ==
    {FoundSign(g, t, m, p) : g \in Glosses, t \in SignTypes,
                             m \in {<<>>, <<"negation">>},
                             p \in {None, Some(<<PoseFrame(1), PoseFrame(2)>>)}}
        \cup {FallbackSign(g, t) : g \in Glosses, t \in SignTypes}

FewSigns ==
    {FoundSign(GO, "verb", <<>>, Some(<<PoseFrame(1), PoseFrame(2)>>)),
     FoundSign(HAPPY, "adjective", <<"negation">>, Some(<<PoseFrame(2)>>)),
     FoundSign(NOT, "question", <<>>, None),
     FoundSign(GO, "noun", <<>>, Some(<<>>)),
     FallbackSign(SADLY, "adverb")}

SignSequences == {<<s>> : s \in AllSigns} \cup SeqsUpTo(FewSigns, MaxSigns)

NoTiming == [total_duration |-> 0, timeline |-> <<>>, sign_count |-> 0, average_sign_duration |-> 0]

IdleTiming ==
    /\ sign_sequence_input = <<>> /\ timing = NoTiming /\ interpolations = <<>>

\* steps with orders 1, 2, 2 and 3: two different steps share the order 2
DefinitionSteps ==
    {DescribedTrickStep(1, 10, <<HandState("palm_open", "right", "chest_level", "open", (8 * Unit) \div 10)>>,
                        "Show the coin", <<"palm up">>),
     DescribedTrickStep(2, 15, <<>>, "Close the hand", <<>>),
     DescribedTrickStep(2, 20,
                        <<[HandState("fist_closed", "right", "face_level", "closed", (6 * Unit) \div 10)
                              EXCEPT !.tolerance = Unit \div 4],
                          HandState("palm_open", "right", "chest_level", "open", (8 * Unit) \div 10)>>,
                        "Raise the fist", <<"keep closed", "slow">>),
     DescribedTrickStep(3, 30, <<>>, "Open the hand", <<"show empty">>)}

\* the arguments of a constructor call, or the document handed to from_json
DefinitionInputs ==
    {[name |-> "Coin Vanish", difficulty |-> d, description |-> "A coin disappears",
      steps |-> steps, through |-> t] :
        d \in {1, 5}, steps \in SeqsUpTo(DefinitionSteps, MaxTrickSteps),
        t \in {"__init__", "from_json"}}

NoDefinition == [name |-> "", difficulty |-> 0, description |-> "", steps |-> <<>>]

IdleDefinition ==
    /\ definition_input = NoDefinition /\ definition = NoDefinition
    /\ json_text = <<>> /\ restored = NoDefinition /\ json_again = <<>>

\* the arrays and the trick of the concurrent calls
ConcurrentReference == <<PoseFrame(1), PoseFrame(2)>>

ConcurrentUser == <<PoseFrame(2)>>

ConcurrentSegments ==
    <<Segment(10, TrickFrame(270, 400, 900), TrickFrame(270, 400, 900)),
      Segment(15, TrickFrame(30, 400, 900), TrickFrame(30, 200, 900))>>

ConcurrentSteps ==
    MagicTrickDefinition(
        <<TrickStep(2, 15, <<HandState("closing", "right", "chest_level", "closed", (7 * Unit) \div 10)>>),
          TrickStep(1, 10, <<HandState("palm_open", "right", "chest_level", "open", (8 * Unit) \div 10)>>)>>)

\* the scoring calls a thread may make, each with the result the call returns
\* when it runs alone
ScoringCalls ==
    {[function |-> "compare_sign_sequences",
      arguments |-> CompareArguments(ConcurrentReference, ConcurrentUser, "dtw", h, 0),
      alone |-> compare_sign_sequences(ConcurrentReference, ConcurrentUser,
                    visibility_threshold, "dtw",
                    IF h = "None" THEN use_hand_focus_default ELSE h = "True",
                    TRUE, TRUE, 0)] : h \in {"None", "False"}}
    \cup
    {[function |-> "calculate_accuracy_metrics",
      arguments |-> [reference_poses |-> ConcurrentReference, user_poses |-> ConcurrentUser,
                     resampled |-> max_distance \div 2],
      alone |-> calculate_accuracy_metrics(ConcurrentReference, ConcurrentUser, TRUE, TRUE,
                                           max_distance \div 2)],
     [function |-> "score_step",
      arguments |-> [user_poses |-> ConcurrentSegments[2], step |-> ConcurrentSteps[2]],
      alone |-> score_step(ConcurrentSegments[2], ConcurrentSteps[2])],
     [function |-> "score_complete_trick",
      arguments |-> [user_poses_sequence |-> ConcurrentSegments, steps |-> ConcurrentSteps,
                     difficulty |-> 1],
      alone |-> score_complete_trick(ConcurrentSegments, ConcurrentSteps, 1)],
     [function |-> "score_complete_trick",
      arguments |-> [user_poses_sequence |-> <<ConcurrentSegments[1]>>,
                     steps |-> ConcurrentSteps, difficulty |-> 1],
      alone |-> score_complete_trick(<<ConcurrentSegments[1]>>, ConcurrentSteps, 1)]}

\* concurrent calls under study
NumCalls == 2

Pending == [kind |-> "pending"]

IdleConcurrent ==
    /\ config_tables = LoadedTables /\ running = <<>> /\ phase = <<>>
    /\ partial = <<>> /\ call_results = <<>> /\ overlap = FALSE

\* number of sequential progress updates followed
MaxUpdates == 3

\* number of concurrent progress updates of one pair
NumClients == 2

\* scores submitted with a progress update, below and above CompletionScore
ProgressScores == {30, 60, 90}

NoScore == 0 - 1

ProgressTables == {"user_progress", "user_progress_v2"}

IdleProgress ==
    /\ user_progress = <<>> /\ user_progress_v2 = <<>>
    /\ progress_calls = [t \in ProgressTables |-> 0]
    /\ best_submitted = [t \in ProgressTables |-> NoScore]
    /\ update_error = "none" /\ clients = <<>> /\ unique_pair = FALSE

\* the calls two clients make at the same time for one pair: both call the
\* same function
ProgressClients ==
    {[function |-> "save_user_progress", score |-> s, completed |-> c,
      phase |-> "start", existing |-> NoRow] : s \in ProgressScores, c \in BOOLEAN}
    \cup
    {[function |-> "update_user_progress_unified", score |-> s,
      completed |-> s >= CompletionScore,
      phase |-> "start", existing |-> NoRow] : s \in ProgressScores}

\* the rows of the pair before the concurrent calls: none, or the row left by
\* one earlier update
PriorRows == {<<>>, <<ProgressRow(1, 60, 1, FALSE, FALSE)>>}

\* longest token list handed to _reorder_topic_comment
MaxTokens == 4

\* the tokens of the lists handed to _reorder_topic_comment
TokenPalette ==
    {GlossToken("YESTERDAY", "time", "yesterday"), GlossToken("WHAT", "question", "what"),
     GlossToken("DOG", "noun", "dog"), GlossToken("CAT", "noun", "cat"),
     GlossToken("GO-TO", "verb", "go")}

\* longest sentence handed to english_to_gloss, and the number of calls made
\* on one grammar object
MaxWords == 3
MaxGlossCalls == 2

\* the (word, pos) pairs of the sentences
TaggedWords ==
    {<<"dog", "NN">>, <<"cat", "NN">>, <<"bird", "NN">>, <<"he", "PRP">>,
     <<"the", "DT">>}

IdleGrammar ==
    /\ gloss_tokens = <<>> /\ reordered_tokens = <<>> /\ sentence = <<>>
    /\ spatial_indices = <<>> /\ next_spatial_index = 3
    /\ unindexed = <<>> /\ indexed = <<>> /\ gloss_calls = 0

NoCall == [function |-> "none"]

IdleArrays ==
    /\ heap = <<>> /\ call = NoCall /\ returned = NoCall

IdlePose ==
    /\ reference_input = <<>> /\ user_input = <<>>
    /\ metrics = NoMetrics /\ distance_calls = 0

IdleScore ==
    /\ distance_a = 0 /\ distance_b = 0 /\ score_a = 0 /\ score_b = 0

IdleDtw ==
    /\ ref_flat = <<>> /\ user_flat = <<>> /\ use_fast = "None"
    /\ dtaidistance_available = TRUE /\ fastdtw_available = TRUE
    /\ dtw_result = NoResult /\ dtw_swapped = NoResult

vars == <<pc, scoreVars, dtwVars, poseVars, stepVars, trickVars, seqVars, memVars, defVars, concVars, dbVars, glossVars>>

\* most frames of the flattened arrays handed to normalize_poses
MaxFlatFrames == 3

\* a flattened frame of two coordinates, each valid or nan
FlatRows == {<<x, y>> : x \in {NaN, Unit \div 5, (4 * Unit) \div 5},
                        y \in {NaN, Unit \div 5, (4 * Unit) \div 5}}

PoseArrays == SeqsUpTo(PoseFrames, MaxPoseFrames)

\* the default threshold, the visibility of every landmark of PoseFrame(1),
\* and a threshold above every visibility
FilterThresholds == {visibility_threshold, (9 * Unit) \div 10, Unit}

\* the keys of LANDMARK_INDICES and a name that is no key
BodyParts == DOMAIN LANDMARK_INDICES \cup {"feet"}

FilterCalls ==
    {[function |-> "filter_poses_by_visibility", arrays |-> <<poses>>, threshold |-> t] :
        poses \in PoseArrays, t \in FilterThresholds}

NormalizeCalls ==
    {[function |-> "normalize_poses", arrays |-> <<poses>>] :
        poses \in SeqsUpTo(FlatRows, MaxFlatFrames)}

FocusCalls ==
    {[function |-> "focus_on_body_part", arrays |-> <<poses>>, part |-> part, module |-> m] :
        poses \in PoseArrays, part \in BodyParts,
        m \in {"pose_comparison", "pose_extraction"}}

EuclideanCalls ==
    {[function |-> "euclidean_distance", arrays |-> <<a, b>>] :
        a \in SeqsUpTo(FeatureVectors, MaxDtwFrames),
        b \in SeqsUpTo(FeatureVectors, MaxDtwFrames)}

DtwCalls ==
    {[function |-> "dtw_distance", arrays |-> <<a, b>>, fast |-> "None", dtai |-> d] :
        a \in SeqsUpTo(FeatureVectors, MaxDtwFrames),
        b \in SeqsUpTo(FeatureVectors, MaxDtwFrames), d \in BOOLEAN}

\* visibility thresholds handed to compare_sign_sequences: the configured
\* default (also what None resolves to) and a negative one
NegativeThreshold == 0 - (Unit \div 2)
CompareThresholds == {visibility_threshold, NegativeThreshold}

CompareCalls ==
    {[function |-> "compare_sign_sequences", arrays |-> <<a, b>>, threshold |-> t,
      method |-> m, use_hand_focus |-> h] :
        a \in PoseArrays, b \in PoseArrays, t \in CompareThresholds,
        m \in {"dtw", "euclidean"}, h \in BOOLEAN}

MetricsCalls ==
    {[function |-> "calculate_accuracy_metrics", arrays |-> <<a, b>>] :
        a \in PoseArrays, b \in PoseArrays}

ScoreStepCalls ==
    {[function |-> "score_step", arrays |-> <<Segment(n, a, HiddenHandFrame)>>, step |-> s] :
        n \in FrameCounts, a \in {TrickFrame(30, 400, 900), TrickFrame(195, 200, 900)},
        s \in coin_vanish_steps}

Calls ==
    FilterCalls \cup NormalizeCalls \cup FocusCalls \cup EuclideanCalls \cup DtwCalls
        \cup CompareCalls \cup MetricsCalls \cup ScoreStepCalls

-----------------------------------------------------------------------------
(* Specification of the score conversion *)

InitScore ==
    /\ pc = "input"
    /\ distance_a \in DistanceValues
    /\ distance_b \in DistanceValues
    /\ score_a = 0 /\ score_b = 0
    /\ IdleDtw /\ IdlePose /\ IdleStep /\ IdleTrick /\ IdleTiming /\ IdleArrays /\ IdleDefinition /\ IdleConcurrent /\ IdleProgress /\ IdleGrammar

ConvertScores ==
    /\ pc = "input"
    /\ score_a' = ToScore(distance_a)
    /\ score_b' = ToScore(distance_b)
    /\ pc' = "done"
    /\ UNCHANGED <<distance_a, distance_b, dtwVars, poseVars, stepVars, trickVars, seqVars, memVars, defVars, concVars, dbVars, glossVars>>

NextScore == ConvertScores

SpecScore == InitScore /\ [][NextScore]_vars

-----------------------------------------------------------------------------
(* Specification of dtw_distance *)

InitDtw ==
    /\ pc = "input"
    /\ ref_flat \in SeqsUpTo(FeatureVectors, MaxDtwFrames)
    /\ user_flat \in SeqsUpTo(FeatureVectors, MaxDtwFrames)
    /\ use_fast \in {"None", "True", "False"}
    /\ dtaidistance_available \in BOOLEAN
    /\ fastdtw_available \in BOOLEAN
    /\ dtw_result = NoResult /\ dtw_swapped = NoResult
    /\ IdleScore /\ IdlePose /\ IdleStep /\ IdleTrick /\ IdleTiming /\ IdleArrays /\ IdleDefinition /\ IdleConcurrent /\ IdleProgress /\ IdleGrammar

\* dtw_distance(ref, user, use_fast) and, for comparison, the call with the
\* arguments exchanged
CallDtwDistance ==
    /\ pc = "input"
    /\ \E r1 \in ResampleChoices(ref_flat, user_flat),
          r2 \in ResampleChoices(user_flat, ref_flat) :
          /\ dtw_result' = dtw_distance(ref_flat, user_flat, use_fast,
                              dtaidistance_available, fastdtw_available, r1)
          /\ dtw_swapped' = dtw_distance(user_flat, ref_flat, use_fast,
                              dtaidistance_available, fastdtw_available, r2)
    /\ pc' = "done"
    /\ UNCHANGED <<ref_flat, user_flat, use_fast, dtaidistance_available,
                   fastdtw_available, scoreVars, poseVars, stepVars, trickVars, seqVars, memVars, defVars, concVars, dbVars, glossVars>>

NextDtw == CallDtwDistance

SpecDtw == InitDtw /\ [][NextDtw]_vars

-----------------------------------------------------------------------------
(* Specification of calculate_accuracy_metrics *)

InitPose ==
    /\ pc = "input"
    /\ reference_input \in SeqsUpTo(PoseFrames, MaxPoseFrames)
    /\ user_input \in SeqsUpTo(PoseFrames, MaxPoseFrames)
    /\ dtaidistance_available \in BOOLEAN
    /\ fastdtw_available \in BOOLEAN
    /\ metrics = NoMetrics /\ distance_calls = 0
    /\ ref_flat = <<>> /\ user_flat = <<>> /\ use_fast = "None"
    /\ dtw_result = NoResult /\ dtw_swapped = NoResult
    /\ IdleScore /\ IdleStep /\ IdleTrick /\ IdleTiming /\ IdleArrays /\ IdleDefinition /\ IdleConcurrent /\ IdleProgress /\ IdleGrammar

Returned(out) ==
    /\ metrics' = out.metrics
    /\ distance_calls' = out.calls
    /\ pc' = IF out.raised THEN "raised" ELSE "done"

CallCalculateAccuracyMetrics ==
    /\ pc = "input"
    /\ \E r \in ResampleChoices(reference_input, user_input) :
          Returned(calculate_accuracy_metrics(reference_input, user_input,
                       dtaidistance_available, fastdtw_available, r))
    /\ UNCHANGED <<reference_input, user_input, scoreVars, dtwVars, stepVars, trickVars, seqVars, memVars, defVars, concVars, dbVars, glossVars>>

NextPose == CallCalculateAccuracyMetrics

SpecPose == InitPose /\ [][NextPose]_vars

-----------------------------------------------------------------------------
(* Specification of MagicTrickScorer.score_step *)

InitStep ==
    /\ pc = "input"
    /\ step_input \in Steps
    /\ segment_input \in Segments
    /\ step_score = RInt(0) /\ step_details = NoMetrics
    /\ score_hand_state_calls = 0
    /\ IdleScore /\ IdleDtw /\ IdlePose /\ IdleTrick /\ IdleTiming /\ IdleArrays /\ IdleDefinition /\ IdleConcurrent /\ IdleProgress /\ IdleGrammar

StepReturned(out) ==
    /\ step_score' = out.score
    /\ step_details' = out.details
    /\ score_hand_state_calls' = out.scored
    /\ pc' = IF out.kind = "error" THEN "raised" ELSE "done"

CallScoreStep ==
    /\ pc = "input"
    /\ StepReturned(score_step(segment_input, step_input))
    /\ UNCHANGED <<step_input, segment_input, scoreVars, dtwVars, poseVars, trickVars, seqVars, memVars, defVars, concVars, dbVars, glossVars>>

NextStep == CallScoreStep

SpecStep == InitStep /\ [][NextStep]_vars

-----------------------------------------------------------------------------
(* Specification of MagicTrickScorer.score_complete_trick *)

InitTrick ==
    /\ pc = "input"
    /\ trick_input \in Tricks
    /\ segments_input \in SeqsUpTo(CandidateSegments, MaxSegments)
    /\ trick_score = RInt(0) /\ trick_details = NoMetrics
    /\ score_step_calls = 0
    /\ IdleScore /\ IdleDtw /\ IdlePose /\ IdleStep /\ IdleTiming /\ IdleArrays /\ IdleDefinition /\ IdleConcurrent /\ IdleProgress /\ IdleGrammar

TrickReturned(out) ==
    /\ trick_score' = out.total_score
    /\ trick_details' = out.details
    /\ score_step_calls' = out.calls
    /\ pc' = IF out.kind = "error" THEN "raised" ELSE "done"

CallScoreCompleteTrick ==
    /\ pc = "input"
    /\ TrickReturned(score_complete_trick(segments_input, trick_input, 1))
    /\ UNCHANGED <<trick_input, segments_input, scoreVars, dtwVars, poseVars, stepVars, seqVars, memVars, defVars, concVars, dbVars, glossVars>>

NextTrick == CallScoreCompleteTrick

SpecTrick == InitTrick /\ [][NextTrick]_vars

-----------------------------------------------------------------------------
(* Specification of SignSequencer.calculate_timing and generate_interpolation, *)
(* called one after the other on the same sign sequence                     *)

InitTiming ==
    /\ pc = "input"
    /\ sign_sequence_input \in SignSequences
    /\ timing = NoTiming /\ interpolations = <<>>
    /\ IdleScore /\ IdleDtw /\ IdlePose /\ IdleStep /\ IdleTrick /\ IdleArrays /\ IdleDefinition /\ IdleConcurrent /\ IdleProgress /\ IdleGrammar

CallCalculateTiming ==
    /\ pc = "input"
    /\ timing' = calculate_timing(sign_sequence_input)
    /\ pc' = "timed"
    /\ UNCHANGED <<sign_sequence_input, interpolations, scoreVars, dtwVars, poseVars, stepVars, trickVars, memVars, defVars, concVars, dbVars, glossVars>>

CallGenerateInterpolation ==
    /\ pc = "timed"
    /\ interpolations' = generate_interpolation(sign_sequence_input)
    /\ pc' = "done"
    /\ UNCHANGED <<sign_sequence_input, timing, scoreVars, dtwVars, poseVars, stepVars, trickVars, memVars, defVars, concVars, dbVars, glossVars>>

NextTiming == CallCalculateTiming \/ CallGenerateInterpolation

SpecTiming == InitTiming /\ [][NextTiming]_vars

-----------------------------------------------------------------------------
(* Specification of the engine's calls on arrays in memory: the caller owns *)
(* the arrays of the call, which are the first buffers of the memory        *)

InitArrays ==
    /\ pc = "input"
    /\ call \in Calls
    /\ heap = call.arrays
    /\ returned = NoCall
    /\ IdleScore /\ IdleDtw /\ IdlePose /\ IdleStep /\ IdleTrick /\ IdleTiming /\ IdleDefinition /\ IdleConcurrent /\ IdleProgress /\ IdleGrammar

\* the first and the second array passed by the caller
FirstArgument == Ref(1, FALSE)

SecondArgument == Ref(2, FALSE)

Finished(out, raised) ==
    /\ heap' = out.mem
    /\ returned' = out.ret
    /\ pc' = IF raised THEN "raised" ELSE "done"
    /\ UNCHANGED <<call, scoreVars, dtwVars, poseVars, stepVars, trickVars, seqVars, defVars, concVars, dbVars, glossVars>>

FinishedWithArray(out) == Finished(out, out.ret.kind = "raised")

CallFilterPosesByVisibility ==
    /\ pc = "input" /\ call.function = "filter_poses_by_visibility"
    /\ FinishedWithArray(filter_poses_by_visibility_call(heap, FirstArgument, call.threshold))

CallNormalizePoses ==
    /\ pc = "input" /\ call.function = "normalize_poses"
    /\ FinishedWithArray(normalize_poses_call(heap, FirstArgument))

CallFocusOnBodyPart ==
    /\ pc = "input" /\ call.function = "focus_on_body_part"
    /\ FinishedWithArray(focus_on_body_part_call(heap, FirstArgument, call.part))

FinishedWithValue(out) == Finished(out, out.ret.kind = "error")

CallEuclideanDistance ==
    /\ pc = "input" /\ call.function = "euclidean_distance"
    /\ \E r \in ResampleChoices(heap[1], heap[2]) :
          FinishedWithValue(euclidean_distance_call(heap, FirstArgument, SecondArgument, r))

CallDtwDistanceOnArrays ==
    /\ pc = "input" /\ call.function = "dtw_distance"
    /\ \E r \in ResampleChoices(heap[1], heap[2]) :
          FinishedWithValue(dtw_distance_call(heap, FirstArgument, SecondArgument,
                                              call.fast, call.dtai, TRUE, r))

CallCompareSignSequences ==
    /\ pc = "input" /\ call.function = "compare_sign_sequences"
    /\ \E r \in ResampleChoices(heap[1], heap[2]) :
          FinishedWithValue(compare_sign_sequences_call(
              Pair(heap, FirstArgument, SecondArgument), call.threshold,
              call.method, call.use_hand_focus, TRUE, TRUE, r))

FinishedWithMetrics(out) == Finished(out, out.ret.raised)

CallCalculateAccuracyMetricsOnArrays ==
    /\ pc = "input" /\ call.function = "calculate_accuracy_metrics"
    /\ \E r \in ResampleChoices(heap[1], heap[2]) :
          FinishedWithMetrics(calculate_accuracy_metrics_call(
              Pair(heap, FirstArgument, SecondArgument), TRUE, TRUE, r))

CallScoreStepOnArrays ==
    /\ pc = "input" /\ call.function = "score_step"
    /\ FinishedWithValue(score_step_call(heap, FirstArgument, call.step))

NextArrays ==
    \/ CallFilterPosesByVisibility
    \/ CallNormalizePoses
    \/ CallFocusOnBodyPart
    \/ CallEuclideanDistance
    \/ CallDtwDistanceOnArrays
    \/ CallCompareSignSequences
    \/ CallCalculateAccuracyMetricsOnArrays
    \/ CallScoreStepOnArrays

SpecArrays == InitArrays /\ [][NextArrays]_vars

-----------------------------------------------------------------------------
(* Specification of MagicTrickDefinition: a definition is constructed,      *)
(* directly or by from_json, then serialised, read back and serialised again *)

InitDefinition ==
    /\ pc = "input"
    /\ definition_input \in DefinitionInputs
    /\ definition = NoDefinition /\ json_text = <<>>
    /\ restored = NoDefinition /\ json_again = <<>>
    /\ IdleScore /\ IdleDtw /\ IdlePose /\ IdleStep /\ IdleTrick /\ IdleTiming /\ IdleArrays /\ IdleConcurrent /\ IdleProgress /\ IdleGrammar

ConstructDefinition ==
    /\ pc = "input" /\ definition_input.through = "__init__"
    /\ definition' = MagicTrickDefinitionObject(definition_input.name,
                         definition_input.difficulty, definition_input.description,
                         definition_input.steps)
    /\ pc' = "constructed"
    /\ UNCHANGED <<definition_input, json_text, restored, json_again, scoreVars, dtwVars, poseVars, stepVars, trickVars, seqVars, memVars, concVars, dbVars, glossVars>>

LoadDefinition ==
    /\ pc = "input" /\ definition_input.through = "from_json"
    /\ definition' = from_json(TrickDocument(definition_input.name,
                         definition_input.difficulty, definition_input.description,
                         definition_input.steps))
    /\ pc' = "constructed"
    /\ UNCHANGED <<definition_input, json_text, restored, json_again, scoreVars, dtwVars, poseVars, stepVars, trickVars, seqVars, memVars, concVars, dbVars, glossVars>>

CallToJson ==
    /\ pc = "constructed"
    /\ json_text' = to_json(definition)
    /\ pc' = "serialized"
    /\ UNCHANGED <<definition_input, definition, restored, json_again, scoreVars, dtwVars, poseVars, stepVars, trickVars, seqVars, memVars, concVars, dbVars, glossVars>>

CallFromJson ==
    /\ pc = "serialized"
    /\ restored' = from_json(json_text)
    /\ pc' = "restored"
    /\ UNCHANGED <<definition_input, definition, json_text, json_again, scoreVars, dtwVars, poseVars, stepVars, trickVars, seqVars, memVars, concVars, dbVars, glossVars>>

CallToJsonAgain ==
    /\ pc = "restored"
    /\ json_again' = to_json(restored)
    /\ pc' = "done"
    /\ UNCHANGED <<definition_input, definition, json_text, restored, scoreVars, dtwVars, poseVars, stepVars, trickVars, seqVars, memVars, concVars, dbVars, glossVars>>

NextDefinition ==
    \/ ConstructDefinition
    \/ LoadDefinition
    \/ CallToJson
    \/ CallFromJson
    \/ CallToJsonAgain

SpecDefinition == InitDefinition /\ [][NextDefinition]_vars

-----------------------------------------------------------------------------
(* Specification of concurrent scoring calls: NumCalls threads, each making *)
(* one scoring call, interleaved at the calls of compare_sign_sequences and *)
(* score_step                                                               *)

InitConcurrent ==
    /\ pc = "input"
    /\ config_tables = LoadedTables
    /\ running \in [1..NumCalls -> ScoringCalls]
    /\ phase = [p \in 1..NumCalls |-> 0]
    /\ partial = [p \in 1..NumCalls |-> <<>>]
    /\ call_results = [p \in 1..NumCalls |-> Pending]
    /\ overlap = FALSE
    /\ IdleScore /\ IdleDtw /\ IdlePose /\ IdleStep /\ IdleTrick /\ IdleTiming /\ IdleArrays /\ IdleDefinition /\ IdleProgress /\ IdleGrammar

\* thread p takes a step that leaves the tables, collects an intermediate
\* result when there is one, and returns when outcome is not Pending
Stepped(p, tables, collected, outcome) ==
    /\ config_tables' = tables
    /\ phase' = [phase EXCEPT ![p] = @ + 1]
    /\ partial' = [partial EXCEPT ![p] = collected]
    /\ call_results' = [call_results EXCEPT ![p] = outcome]
    /\ overlap' = (overlap \/ \E q \in 1..NumCalls :
                                 q # p /\ phase[q] > 0 /\ call_results[q] = Pending)
    /\ pc' = IF \A q \in 1..NumCalls : call_results'[q] # Pending THEN "done" ELSE "running"
    /\ UNCHANGED <<running, scoreVars, dtwVars, poseVars, stepVars, trickVars, seqVars, memVars, defVars, dbVars, glossVars>>

Compared1(p, out) == Stepped(p, out.tables, partial[p], out.ret)

RunCompareSignSequences(p) ==
    /\ call_results[p] = Pending /\ running[p].function = "compare_sign_sequences"
    /\ Compared1(p, CompareStep(config_tables, running[p].arguments))

Compared4(p, out, scores) ==
    Stepped(p, out.tables, scores,
            IF Len(scores) = 4 THEN MetricsAssembled(scores, running[p].arguments)
            ELSE Pending)

MetricsCompared(p, out) == Compared4(p, out, Append(partial[p], out.ret))

RunCalculateAccuracyMetrics(p) ==
    /\ call_results[p] = Pending /\ running[p].function = "calculate_accuracy_metrics"
    /\ MetricsCompared(p, MetricsStep(config_tables, phase[p] + 1, running[p].arguments))

RunScoreStep(p) ==
    /\ call_results[p] = Pending /\ running[p].function = "score_step"
    /\ Compared1(p, ScoreStepStep(config_tables, running[p].arguments.user_poses,
                                  running[p].arguments.step))

\* score_complete_trick lines 299-300: the length check
CheckTrick(p) ==
    /\ call_results[p] = Pending /\ running[p].function = "score_complete_trick"
    /\ phase[p] = 0
    /\ Stepped(p, config_tables, <<>>,
               IF Len(running[p].arguments.user_poses_sequence) # Len(running[p].arguments.steps)
               THEN TrickReturn("value", RInt(0),
                        [error |-> [expected |-> Len(running[p].arguments.steps),
                                    got |-> Len(running[p].arguments.user_poses_sequence)]], 0)
               ELSE Pending)

StepScored(p, out) ==
    Stepped(p, out.tables, Append(partial[p], out.ret),
            IF out.ret.kind = "error"
            THEN TrickAssembled(Append(partial[p], out.ret), running[p].arguments.difficulty)
            ELSE Pending)

\* score_complete_trick lines 305-308: one turn of the loop
LoopTrick(p) ==
    /\ call_results[p] = Pending /\ running[p].function = "score_complete_trick"
    /\ phase[p] \in 1..(Len(running[p].arguments.steps))
    /\ StepScored(p, ScoreStepStep(config_tables,
                         running[p].arguments.user_poses_sequence[phase[p]],
                         running[p].arguments.steps[phase[p]]))

\* score_complete_trick lines 310-320: the weighted average and the breakdown
ReturnTrick(p) ==
    /\ call_results[p] = Pending /\ running[p].function = "score_complete_trick"
    /\ phase[p] = Len(running[p].arguments.steps) + 1
    /\ Stepped(p, config_tables, partial[p],
               TrickAssembled(partial[p], running[p].arguments.difficulty))

NextConcurrent ==
    \E p \in 1..NumCalls :
        \/ RunCompareSignSequences(p)
        \/ RunCalculateAccuracyMetrics(p)
        \/ RunScoreStep(p)
        \/ CheckTrick(p)
        \/ LoopTrick(p)
        \/ ReturnTrick(p)

SpecConcurrent == InitConcurrent /\ [][NextConcurrent]_vars

-----------------------------------------------------------------------------
(* Specification of sequential progress updates: up to MaxUpdates calls of  *)
(* save_user_progress and update_user_progress_unified for one pair, each   *)
(* returning before the next begins                                         *)

NotProgress ==
    /\ IdleScore /\ IdleDtw /\ IdlePose /\ IdleStep /\ IdleTrick /\ IdleTiming
    /\ IdleArrays /\ IdleDefinition /\ IdleConcurrent /\ IdleGrammar

OtherThanProgress ==
    <<scoreVars, dtwVars, poseVars, stepVars, trickVars, seqVars, memVars,
      defVars, concVars, glossVars>>

InitProgress ==
    /\ pc = "input"
    /\ user_progress = <<>> /\ user_progress_v2 = <<>>
    /\ progress_calls = [t \in ProgressTables |-> 0]
    /\ best_submitted = [t \in ProgressTables |-> NoScore]
    /\ update_error = "none" /\ clients = <<>>
    /\ unique_pair \in BOOLEAN
    /\ NotProgress

\* the bookkeeping of one returned or failed call on a table
Submitted(t, score, out) ==
    /\ progress_calls' = [progress_calls EXCEPT ![t] = @ + 1]
    /\ best_submitted' = [best_submitted EXCEPT ![t] = Max(@, score)]
    /\ update_error' = IF out.error # "none" THEN out.error ELSE update_error

SaveUserProgress ==
    /\ progress_calls["user_progress"] + progress_calls["user_progress_v2"] < MaxUpdates
    /\ \E score \in ProgressScores, completed \in BOOLEAN :
          LET out == save_user_progress(user_progress, score, completed) IN
          /\ user_progress' = out.table
          /\ Submitted("user_progress", score, out)
    /\ pc' = "done"
    /\ UNCHANGED <<user_progress_v2, clients, unique_pair, OtherThanProgress>>

UpdateUserProgressUnified ==
    /\ progress_calls["user_progress"] + progress_calls["user_progress_v2"] < MaxUpdates
    /\ \E score \in ProgressScores :
          LET out == update_user_progress_unified(user_progress_v2, score, unique_pair) IN
          /\ user_progress_v2' = out.table
          /\ Submitted("user_progress_v2", score, out)
    /\ pc' = "done"
    /\ UNCHANGED <<user_progress, clients, unique_pair, OtherThanProgress>>

NextProgress == SaveUserProgress \/ UpdateUserProgressUnified

SpecProgress == InitProgress /\ [][NextProgress]_vars

-----------------------------------------------------------------------------
(* Specification of concurrent progress updates: NumClients clients update  *)
(* the same pair through the same function, each on its own connection; a   *)
(* client's SELECT is one step, its UPDATE or INSERT with the commit        *)
(* another, and the steps of different clients interleave freely            *)

InitUpsert ==
    /\ pc = "input"
    /\ clients \in [1..NumClients -> ProgressClients]
    /\ \A c \in 1..NumClients : clients[c].function = clients[1].function
    /\ \E prior \in PriorRows :
          /\ user_progress =
                IF clients[1].function = "save_user_progress" THEN prior ELSE <<>>
          /\ user_progress_v2 =
                IF clients[1].function = "save_user_progress" THEN <<>> ELSE prior
    /\ progress_calls = [user_progress |-> Len(user_progress),
                         user_progress_v2 |-> Len(user_progress_v2)]
    /\ best_submitted =
          [user_progress |-> IF user_progress = <<>> THEN NoScore
                             ELSE user_progress[1].best_score,
           user_progress_v2 |-> IF user_progress_v2 = <<>> THEN NoScore
                                ELSE user_progress_v2[1].best_score]
    /\ update_error = "none"
    /\ unique_pair \in BOOLEAN
    /\ NotProgress

\* the table a client's function reads and writes
TableOf(function) ==
    IF function = "save_user_progress" THEN "user_progress" ELSE "user_progress_v2"

Rows(t) == IF t = "user_progress" THEN user_progress ELSE user_progress_v2

\* lines 144-146 and 410-415: the client's SELECT and fetchone
SelectProgress(c) ==
    /\ clients[c].phase = "start"
    /\ clients' = [clients EXCEPT ![c].phase = "selected",
                       ![c].existing = fetchone(Rows(TableOf(clients[c].function)))]
    /\ UNCHANGED <<pc, user_progress, user_progress_v2, progress_calls,
                   best_submitted, update_error, unique_pair, OtherThanProgress>>

\* lines 148-168 and 418-443: the client's UPDATE or INSERT and its commit
WriteProgress(c) ==
    /\ clients[c].phase = "selected"
    /\ LET cl == clients[c]
           t == TableOf(cl.function)
           out == IF cl.function = "save_user_progress"
                  THEN save_user_progress_write(user_progress, cl.existing,
                                                cl.score, cl.completed)
                  ELSE update_user_progress_unified_write(user_progress_v2,
                           cl.existing, cl.score, unique_pair)
       IN  /\ user_progress' = IF t = "user_progress" THEN out.table ELSE user_progress
           /\ user_progress_v2' = IF t = "user_progress_v2" THEN out.table
                                  ELSE user_progress_v2
           /\ clients' = [clients EXCEPT ![c].phase =
                              IF out.error = "none" THEN "done" ELSE "raised"]
           /\ IF out.error = "none"
              THEN /\ progress_calls' = [progress_calls EXCEPT ![t] = @ + 1]
                   /\ best_submitted' = [best_submitted EXCEPT ![t] = Max(@, cl.score)]
                   /\ UNCHANGED update_error
              ELSE /\ update_error' = out.error
                   /\ UNCHANGED <<progress_calls, best_submitted>>
    /\ pc' = IF \A d \in 1..NumClients : d # c => clients[d].phase \in {"done", "raised"}
             THEN "done" ELSE pc
    /\ UNCHANGED <<unique_pair, OtherThanProgress>>

NextUpsert ==
    \E c \in 1..NumClients :
        \/ SelectProgress(c)
        \/ WriteProgress(c)

SpecUpsert == InitUpsert /\ [][NextUpsert]_vars

-----------------------------------------------------------------------------
(* Specification of AuslanGrammar._reorder_topic_comment on token lists     *)

NotGrammar ==
    /\ IdleScore /\ IdleDtw /\ IdlePose /\ IdleStep /\ IdleTrick /\ IdleTiming
    /\ IdleArrays /\ IdleDefinition /\ IdleConcurrent /\ IdleProgress

OtherThanGrammar ==
    <<scoreVars, dtwVars, poseVars, stepVars, trickVars, seqVars, memVars,
      defVars, concVars, dbVars>>

InitReorder ==
    /\ pc = "input"
    /\ gloss_tokens \in SeqsUpTo(TokenPalette, MaxTokens)
    /\ reordered_tokens = <<>> /\ sentence = <<>>
    /\ spatial_indices = <<>> /\ next_spatial_index = 3
    /\ unindexed = <<>> /\ indexed = <<>> /\ gloss_calls = 0
    /\ NotGrammar

CallReorderTopicComment ==
    /\ pc = "input"
    /\ reordered_tokens' = _reorder_topic_comment(gloss_tokens)
    /\ pc' = "done"
    /\ UNCHANGED <<gloss_tokens, sentence, spatial_indices, next_spatial_index,
                   unindexed, indexed, gloss_calls, OtherThanGrammar>>

NextReorder == CallReorderTopicComment

SpecReorder == InitReorder /\ [][NextReorder]_vars

-----------------------------------------------------------------------------
(* Specification of english_to_gloss: up to MaxGlossCalls calls on one      *)
(* grammar object, the loop of _apply_spatial_indexing one token at a time  *)

InitGloss ==
    /\ pc = "input"
    /\ gloss_tokens = <<>> /\ reordered_tokens = <<>> /\ sentence = <<>>
    /\ spatial_indices = FreshSpatial.spatial_indices
    /\ next_spatial_index = FreshSpatial.next_spatial_index
    /\ unindexed = <<>> /\ indexed = <<>> /\ gloss_calls = 0
    /\ NotGrammar

\* english_to_gloss up to the loop of _apply_spatial_indexing: the words are
\* glossed and reordered and the spatial state is reset
StartEnglishToGloss ==
    /\ pc \in {"input", "done"} /\ gloss_calls < MaxGlossCalls
    /\ \E pos_tags \in SeqsUpTo(TaggedWords, MaxWords) :
          /\ sentence' = pos_tags
          /\ gloss_tokens' = WordsToGloss(pos_tags)
          /\ reordered_tokens' = _reorder_topic_comment(WordsToGloss(pos_tags))
          /\ unindexed' = _reorder_topic_comment(WordsToGloss(pos_tags))
    /\ LET reset == ResetSpatial(SpatialState(spatial_indices, next_spatial_index))
       IN  /\ spatial_indices' = reset.spatial_indices
           /\ next_spatial_index' = reset.next_spatial_index
    /\ indexed' = <<>>
    /\ gloss_calls' = gloss_calls + 1
    /\ pc' = "indexing"
    /\ UNCHANGED OtherThanGrammar

\* one iteration of the loop
IndexNextToken ==
    /\ pc = "indexing" /\ unindexed # <<>>
    /\ LET out == IndexToken(SpatialState(spatial_indices, next_spatial_index),
                             Head(unindexed))
       IN  /\ spatial_indices' = out.state.spatial_indices
           /\ next_spatial_index' = out.state.next_spatial_index
           /\ indexed' = Append(indexed, out.token)
    /\ unindexed' = Tail(unindexed)
    /\ UNCHANGED <<pc, gloss_tokens, reordered_tokens, sentence, gloss_calls,
                   OtherThanGrammar>>

\* return result
ReturnEnglishToGloss ==
    /\ pc = "indexing" /\ unindexed = <<>>
    /\ pc' = "done"
    /\ UNCHANGED <<glossVars, OtherThanGrammar>>

NextGloss == StartEnglishToGloss \/ IndexNextToken \/ ReturnEnglishToGloss

SpecGloss == InitGloss /\ [][NextGloss]_vars

-----------------------------------------------------------------------------
(* C2: the distance-to-score conversion is monotonic non-increasing in the *)
(* distance and its result lies in [0,100] for every non-negative          *)
(* distance, also above max_distance.                                      *)
C2_ScoreMonotoneBounded ==
    pc = "done" =>
        /\ 0 <= score_a /\ score_a <= 100 * Unit
        /\ 0 <= score_b /\ score_b <= 100 * Unit
        /\ (distance_a <= distance_b => score_a >= score_b)

\* a distance above max_distance was converted next to one below it
C2_Witness ==
    /\ pc = "done"
    /\ distance_a < max_distance /\ distance_b > max_distance
    /\ score_a > 0 /\ score_b = 0

C4_DegenerateReturnsSentinel ==
    (pc = "done" /\ (Len(ref_flat) = 0 \/ Len(user_flat) = 0))
        => dtw_result = Value(max_distance)

\* the input that shows it: both sequences empty and dtaidistance missing
C4_FailingInput ==
    /\ pc = "done" /\ ~dtaidistance_available
    /\ Len(ref_flat) = 0 /\ Len(user_flat) = 0
    /\ dtw_result = NanResult

(* C1: for every non-empty pose sequence S, calculate_accuracy_metrics(S, S) *)
(* returns weighted_score >= 95 and compare_sign_sequences(S, S) (the        *)
(* hand-focused DTW comparison) returns a score > 95.                        *)
C1_SelfComparisonScoresHigh ==
    (pc # "input" /\ reference_input = user_input /\ Len(reference_input) > 0)
        => /\ pc = "done"
           /\ metrics.weighted_score >= 95 * Unit
           /\ metrics.hand_dtw_score > 95 * Unit

\* a two-frame sequence with hidden landmarks was compared with itself
C1_Witness ==
    /\ pc = "done" /\ reference_input = user_input
    /\ Len(reference_input) = 2
    /\ reference_input[1] # reference_input[2]
    /\ metrics.weighted_score = 100 * Unit

(* C5 as claimed: if either input of calculate_accuracy_metrics is empty the *)
(* result is score 0 with an explicit degenerate flag and no distance        *)
(* computation is performed.                                                 *)
C5_EmptyGivesZeroWithDegenerateFlag ==
    (pc # "input" /\ (Len(reference_input) = 0 \/ Len(user_input) = 0))
        => /\ pc = "done"
           /\ metrics.weighted_score = 0
           /\ "degenerate" \in DOMAIN metrics
           /\ distance_calls = 0

MetricKeys ==
    {"dtw_score", "hand_dtw_score", "upper_body_score", "euclidean_score",
     "frame_count_ratio", "weighted_score"}

(* C5 amended: if either input of calculate_accuracy_metrics is empty, all   *)
(* four metric scores and weighted_score are 0, no distance computation is   *)
(* performed, and the result carries no degenerate flag: its keys are the    *)
(* same six as for any other input.                                          *)
C5_EmptyGivesZeroNoDistance ==
    (pc # "input" /\ (Len(reference_input) = 0 \/ Len(user_input) = 0))
        => /\ pc = "done"
           /\ metrics.weighted_score = 0
           /\ metrics.dtw_score = 0 /\ metrics.hand_dtw_score = 0
           /\ metrics.upper_body_score = 0 /\ metrics.euclidean_score = 0
           /\ DOMAIN metrics = MetricKeys
           /\ distance_calls = 0

\* an empty reference was scored against a two-frame candidate
C5_Witness ==
    /\ pc = "done"
    /\ Len(reference_input) = 0 /\ Len(user_input) = 2
    /\ metrics.frame_count_ratio = 2 * Unit
    /\ metrics.weighted_score = 0

(* C6: weighted_score = 0.5*hand_dtw_score + 0.3*upper_body_score +          *)
(* 0.2*dtw_score (to the model's precision); the weights sum to 1, the       *)
(* Euclidean score has no weight, and the composite lies between the least   *)
(* and the greatest of the three weighted scores, hence in [0,100].          *)
C6_WeightedComposite ==
    pc = "done" =>
        LET h == metrics.hand_dtw_score
            u == metrics.upper_body_score
            d == metrics.dtw_score
            w == metrics.weighted_score
        IN  /\ hand_weight + upper_body_weight + dtw_weight = 10
            /\ 10 * w <= 5 * h + 3 * u + 2 * d
            /\ 5 * h + 3 * u + 2 * d < 10 * w + 10
            /\ Min3(h, u, d) <= w /\ w <= Max(h, Max(u, d))
            /\ 0 <= w /\ w <= 100 * Unit

\* three different weighted scores, a fourth Euclidean score, and a composite
\* strictly between the extremes
C6_Witness ==
    /\ pc = "done"
    /\ metrics.hand_dtw_score # metrics.upper_body_score
    /\ metrics.upper_body_score # metrics.dtw_score
    /\ metrics.euclidean_score # metrics.dtw_score
    /\ metrics.euclidean_score > 0
    /\ Min3(metrics.hand_dtw_score, metrics.upper_body_score, metrics.dtw_score)
          < metrics.weighted_score
    /\ metrics.weighted_score
          < Max(metrics.hand_dtw_score, Max(metrics.upper_body_score, metrics.dtw_score))

-----------------------------------------------------------------------------
(* C7: in score_step, every hand state whose mean wrist visibility over the *)
(* segment is below its visibility_required gets exactly 20 points and the  *)
(* reason 'Low visibility', whatever the openness and the position zone,    *)
(* and _score_hand_state is called for the other hand states only.          *)
C7_LowVisibilityFixedCredit ==
    (pc = "done" /\ Len(segment_input) > 0) =>
        LET hs(k) == step_input.hand_states[k]
            low(k) == Less(nanmean(Column(segment_input, WristIndex(hs(k).hand), 3)),
                           hs(k).visibility_required)
            entry(k) == step_details.hand_states[k]
        IN  /\ Len(step_details.hand_states) = Len(step_input.hand_states)
            /\ \A k \in 1..(Len(step_input.hand_states)) :
                  low(k) => /\ DOMAIN entry(k) = {"hand", "score", "reason"}
                            /\ entry(k).hand = hs(k).hand
                            /\ entry(k).score = 20
                            /\ entry(k).reason = "Low visibility"
            /\ score_hand_state_calls =
                   Cardinality({k \in 1..(Len(step_input.hand_states)) : ~low(k)})

\* C7 witness: a step with two hand states returned; the first hand is
\* not visible enough and gets 20 although its openness and position would
\* have earned 100, the second is scored by _score_hand_state.
C7_Witness ==
    /\ pc = "done" /\ Len(segment_input) > 0
    /\ Len(step_input.hand_states) = 2
    /\ "reason" \in DOMAIN step_details.hand_states[1]
    /\ step_details.hand_states[1].score = 20
    /\ _score_hand_state(extract_hand_position(segment_input, step_input.hand_states[1].hand),
                         step_input.hand_states[1]) = 100
    /\ "metrics" \in DOMAIN step_details.hand_states[2]
    /\ score_hand_state_calls = 1

-----------------------------------------------------------------------------
(* C8: score_complete_trick called with a number of segments different from *)
(* the trick's number of steps returns score 0 with a step-count error,     *)
(* calls score_step for no step and returns no per-step detail.             *)
C8_StepCountMismatch ==
    (pc = "done" /\ Len(segments_input) # Len(trick_input)) =>
        /\ trick_score = RInt(0)
        /\ DOMAIN trick_details = {"error"}
        /\ trick_details.error.expected = Len(trick_input)
        /\ trick_details.error.got = Len(segments_input)
        /\ score_step_calls = 0

\* C8 witness: a call with two segments for a trick of three steps returned
C8_Witness ==
    /\ pc = "done"
    /\ Len(segments_input) = 2 /\ Len(trick_input) = 3
    /\ \A i \in 1..2 : Len(segments_input[i]) > 0
    /\ "error" \in DOMAIN trick_details
    /\ score_step_calls = 0

-----------------------------------------------------------------------------
(* C9: for a non-empty segment and an expected duration e >= 0, score_step  *)
(* returns duration_penalty = min(20, 100 * |a - e| / (e + 1)) for a actual *)
(* frames and the final score max(0, mean of the hand-state scores -        *)
(* duration_penalty) (the mean of no score counting 0); e = 10, a = 10 with *)
(* perfect hand states gives 100, e = 10, a = 30 gives penalty 20 and 80.   *)
C9_DurationPenalty ==
    (pc = "done" /\ Len(segment_input) > 0 /\ step_input.duration_frames >= 0) =>
        LET e == step_input.duration_frames
            a == Len(segment_input)
            n == Len(step_details.hand_states)
            total == SumSeq(Array([k \in 1..n |-> step_details.hand_states[k].score]))
            capped == Min(20 * (e + 1), 100 * Abs(a - e))
            penalty == step_details.duration_penalty
        IN  /\ penalty.n * (e + 1) = capped * penalty.d
            /\ n > 0 => step_score.n * (n * (e + 1))
                            = Max(0, total * (e + 1) - capped * n) * step_score.d
            /\ n = 0 => step_score = RInt(0)
            /\ (e = 10 /\ a = 10 /\ n > 0 /\ total = 100 * n) => step_score = RInt(100)
            /\ (e = 10 /\ a = 30 /\ n > 0 /\ total = 100 * n) =>
                   penalty = RInt(20) /\ step_score = RInt(80)

\* C9 witness: a perfect performance of 30 frames for a step of 10 returned
\* with score 80
C9_Witness ==
    /\ pc = "done"
    /\ step_input.duration_frames = 10 /\ Len(segment_input) = 30
    /\ Len(step_details.hand_states) > 0
    /\ \A k \in 1..(Len(step_details.hand_states)) : step_details.hand_states[k].score = 100
    /\ step_details.duration_penalty = RInt(20)
    /\ step_score = RInt(80)

-----------------------------------------------------------------------------
(* C10: for a sufficiently visible hand state _score_hand_state returns 100 *)
(* less 30 if the class is open or closed and the openness fails its range  *)
(* test, less 25 if the class is pinched or spread and the openness fails   *)
(* its range test, less 20 if the classified zone is not the required one;  *)
(* the result is one of 100, 80, 75, 70, 55, 50.                            *)
C10_HandStateScoreValues ==
    (pc = "done" /\ Len(segment_input) > 0) =>
        \A k \in 1..(Len(step_details.hand_states)) :
            LET entry == step_details.hand_states[k]
                required == step_input.hand_states[k]
            IN  "metrics" \in DOMAIN entry =>
                    LET openness == entry.metrics.openness
                        class == required.finger_configuration
                        class_deduction ==
                            IF \/ class = "open" /\ openness < (6 * Unit) \div 10
                               \/ class = "closed" /\ openness > (4 * Unit) \div 10
                            THEN 30
                            ELSE IF \/ class = "pinched" /\ (openness < (2 * Unit) \div 10
                                                             \/ openness > (7 * Unit) \div 10)
                                    \/ class = "spread" /\ openness < (7 * Unit) \div 10
                            THEN 25
                            ELSE 0
                        zone_deduction ==
                            IF entry.metrics.position # required.position THEN 20 ELSE 0
                    IN  /\ entry.score = Max(0, 100 - class_deduction - zone_deduction)
                        /\ entry.score \in {100, 80, 75, 70, 55, 50}

\* C10 witness: a visible hand returned with 55: a pinched or spread class
\* failed and the hand was in another zone than required
C10_Witness ==
    /\ pc = "done" /\ Len(segment_input) > 0
    /\ \E k \in 1..(Len(step_details.hand_states)) :
          /\ "metrics" \in DOMAIN step_details.hand_states[k]
          /\ step_input.hand_states[k].finger_configuration \in {"pinched", "spread"}
          /\ step_details.hand_states[k].metrics.position # step_input.hand_states[k].position
          /\ step_details.hand_states[k].score = 55

-----------------------------------------------------------------------------
(* C11: for every trick of n steps and every list of n candidate segments,  *)
(* score_complete_trick returns n step scores and n step details in step    *)
(* order and an aggregate that is their weighted average under weights that *)
(* do not decrease with the step position and sum to 1.                     *)
C11_WeightedAggregate ==
    (pc # "input" /\ Len(segments_input) = Len(trick_input)) =>
        LET n == Len(trick_input)
            w(i) == IF n = 1 THEN 1 ELSE 2 * (n - 1) + (i - 1)
            total_w == SumSeq(Array([i \in 1..n |-> w(i)]))
            weighted == RSum(Array([i \in 1..n |-> RScale(w(i), trick_details.step_scores[i])]))
        IN  /\ pc = "done"
            /\ Len(trick_details.step_scores) = n
            /\ Len(trick_details.step_details) = n
            /\ \A i \in 1..n :
                  Len(segments_input[i]) > 0 =>
                      trick_details.step_details[i].step = trick_input[i].order
            /\ \A i \in 1..(n - 1) : w(i) <= w(i + 1)
            /\ trick_score.n * weighted.d * total_w = weighted.n * trick_score.d
            /\ trick_details.total_score = trick_score

\* the input that shows it: a trick without steps and no candidate segment;
\* np.average raises ZeroDivisionError, the weights sum to zero
C11_FailingInput ==
    /\ pc = "raised"
    /\ Len(trick_input) = 0 /\ Len(segments_input) = 0
    /\ score_step_calls = 0

\* for n >= 1 the aggregate is returned as described
C11_HoldsForNonEmptyTricks ==
    Len(trick_input) > 0 => C11_WeightedAggregate

-----------------------------------------------------------------------------
(* C12: every score is within [0,100]; for score_step: each hand-state      *)
(* score and the final score, for any actual and expected frame counts.     *)
C12_StepScoresWithinRange ==
    (pc = "done" /\ Len(segment_input) > 0) =>
        /\ \A k \in 1..(Len(step_details.hand_states)) :
              /\ 0 <= step_details.hand_states[k].score
              /\ step_details.hand_states[k].score <= 100
        /\ 0 <= step_score.n
        /\ step_score.n <= 100 * step_score.d

\* the input that shows it: a step expecting -3 frames performed in 10
\* frames; the duration penalty is negative and the final score exceeds 100
C12_FailingInput ==
    /\ pc = "done"
    /\ step_input.duration_frames = 0 - 3 /\ Len(segment_input) = 10
    /\ RLess(step_details.duration_penalty, RInt(0))
    /\ step_score.n > 100 * step_score.d

\* with a non-negative expected duration the scores of score_step stay in
\* [0,100]
C12_HoldsForNonNegativeDurations ==
    step_input.duration_frames >= 0 => C12_StepScoresWithinRange

-----------------------------------------------------------------------------
(* C13: calculate_timing on k entries returns a timeline of k entries and   *)
(* sign_count = k, puts a transition gap between consecutive entries only   *)
(* (k - 1 gaps, none for k <= 1), and total_duration is the sum of the      *)
(* entry durations plus the sum of the gaps.                                *)
C13_GapsAndTotalDuration ==
    pc \in {"timed", "done"} =>
        LET k == Len(sign_sequence_input)
            line == timing.timeline
            gap(i) == line[i].start_time - line[i - 1].end_time
            gaps == {i \in 2..Len(line) : gap(i) > 0}
        IN  /\ Len(line) = k
            /\ timing.sign_count = k
            /\ Cardinality(gaps) = IF k <= 1 THEN 0 ELSE k - 1
            /\ \A i \in gaps : gap(i) = TRANSITION_DURATION
            /\ k >= 1 => line[1].start_time = 0
            /\ timing.total_duration
                   = SumSeq(Array([i \in 1..k |-> line[i].duration]))
                     + Cardinality(gaps) * TRANSITION_DURATION

\* C13 witness: the timing of three entries, one of them fingerspelled, with
\* two gaps
C13_Witness ==
    /\ pc = "timed"
    /\ Len(sign_sequence_input) = 3
    /\ \E i \in 1..3 : "fallback" \in DOMAIN sign_sequence_input[i]
    /\ timing.sign_count = 3
    /\ timing.total_duration
           = timing.timeline[1].duration + timing.timeline[2].duration
             + timing.timeline[3].duration + 2 * TRANSITION_DURATION

-----------------------------------------------------------------------------
(* C14: in the timeline of calculate_timing the first entry starts at 0     *)
(* with transition_in 0, the last entry has transition_out 0, every entry   *)
(* ends at start_time + duration, and every later entry starts exactly one  *)
(* transition gap after the end of its predecessor: the entries keep the    *)
(* input order and do not overlap.                                          *)
C14_TimelineLayout ==
    (pc \in {"timed", "done"} /\ Len(sign_sequence_input) > 0) =>
        LET line == timing.timeline
            k == Len(line)
        IN  /\ k = Len(sign_sequence_input)
            /\ line[1].start_time = 0
            /\ line[1].transition_in = 0
            /\ line[k].transition_out = 0
            /\ \A i \in 1..k :
                  /\ line[i].end_time = line[i].start_time + line[i].duration
                  /\ line[i].gloss = sign_sequence_input[i].gloss
            /\ \A i \in 2..k :
                  /\ line[i].start_time = line[i - 1].end_time + TRANSITION_DURATION
                  /\ line[i - 1].end_time <= line[i].start_time

\* C14 witness: a timeline of three entries, the second of positive
\* duration, the third starting 0.3 s after the second ends
C14_Witness ==
    /\ pc = "timed"
    /\ Len(timing.timeline) = 3
    /\ timing.timeline[2].duration > 0
    /\ timing.timeline[2].start_time > 0
    /\ timing.timeline[3].start_time = timing.timeline[2].end_time + TRANSITION_DURATION
    /\ timing.timeline[3].transition_out = 0

-----------------------------------------------------------------------------
\* The duration the claim describes for one entry: the table's base duration
\* (1.0 for a type the table lacks), the negation and question holds, the
\* emotion factor for an emotion-bearing entry of the given types, and 0.4 s
\* per letter for a fingerspell fallback.
C15_Described(sign, emotion_types) ==
    IF "fallback" \in DOMAIN sign
    THEN (Len(sign.fingerspell_sequence) * 4 * Unit) \div 10
    ELSE LET base == IF sign.sign_type \in DOMAIN type_durations
                     THEN type_durations[sign.sign_type] ELSE Unit
             negated == Contains(sign.gloss, NOT) \/ InList("negation", sign.modifiers)
             held == base + (IF negated THEN NEGATION_HOLD ELSE 0)
                          + (IF sign.sign_type = "question" THEN QUESTION_HOLD ELSE 0)
             emotional == \E word \in {HAPPY, SAD, ANGRY} : Contains(sign.gloss, word)
         IN  IF sign.sign_type \in emotion_types /\ emotional
             THEN (held * 12) \div 10 ELSE held

(* C15 as stated: the duration of an entry is the base duration of its      *)
(* category plus the negation hold plus the question hold, multiplied by    *)
(* the emotion factor only for an emotion-bearing adjective; a fingerspell  *)
(* fallback lasts its letter count times the per-letter duration.           *)
C15_DurationEmotionAdjectiveOnly ==
    pc \in {"timed", "done"} =>
        \A i \in 1..(Len(sign_sequence_input)) :
            timing.timeline[i].duration = C15_Described(sign_sequence_input[i], {"adjective"})

(* C15 amended: as above, the emotion factor applying to an emotion-bearing *)
(* adjective or adverb.                                                     *)
C15_DurationEmotionAdjectiveOrAdverb ==
    pc \in {"timed", "done"} =>
        \A i \in 1..(Len(sign_sequence_input)) :
            timing.timeline[i].duration
                = C15_Described(sign_sequence_input[i], {"adjective", "adverb"})

\* C15 witness: the negated adverb SADLY lasts (0.6 + 0.2) * 1.2 = 0.96 s
C15_Witness ==
    /\ pc = "timed"
    /\ Len(sign_sequence_input) = 1
    /\ sign_sequence_input[1].gloss = SADLY
    /\ sign_sequence_input[1].sign_type = "adverb"
    /\ "fallback" \notin DOMAIN sign_sequence_input[1]
    /\ InList("negation", sign_sequence_input[1].modifiers)
    /\ timing.timeline[1].duration = (96 * Unit) \div 100

-----------------------------------------------------------------------------
(* C16: generate_interpolation returns, in sequence order, exactly one      *)
(* interpolation for each adjacent pair of entries that both carry pose     *)
(* data; its frames are poseA * (1 - t) + poseB * t for t evenly spaced     *)
(* over [0,1], poseA the last pose of the earlier and poseB the first pose  *)
(* of the later entry, so the first frame is poseA and the last is poseB.   *)
C16_InterpolationPerPosedPair ==
    pc = "done" =>
        LET signs == sign_sequence_input
            posed(i) == /\ "poses" \in DOMAIN signs[i]
                        /\ ~signs[i].poses.is_none
                        /\ Len(signs[i].poses.list) > 0
            pairs == {i \in 1..(Len(signs) - 1) : posed(i) /\ posed(i + 1)}
            pair(j) == CHOOSE i \in pairs : Cardinality({p \in pairs : p <= i}) = j
        IN  /\ Len(interpolations) = Cardinality(pairs)
            /\ \A j \in 1..(Len(interpolations)) :
                  LET poseA == signs[pair(j)].poses.list[Len(signs[pair(j)].poses.list)]
                      poseB == signs[pair(j) + 1].poses.list[1]
                      frames == interpolations[j].frames
                      n == Len(frames)
                  IN  /\ interpolations[j].from_sign = signs[pair(j)].gloss
                      /\ interpolations[j].to_sign = signs[pair(j) + 1].gloss
                      /\ n >= 2
                      /\ frames[1] = poseA
                      /\ frames[n] = poseB
                      /\ \A m \in 1..n : \A l \in DOMAIN poseA : \A c \in 1..3 :
                            frames[m][l][c]
                                = (poseA[l][c] * (n - m) + poseB[l][c] * (m - 1)) \div (n - 1)

\* C16 witness: three entries, the last without pose data; one interpolation
\* is returned, between two different poses
C16_Witness ==
    /\ pc = "done"
    /\ Len(sign_sequence_input) = 3
    /\ "poses" \notin DOMAIN sign_sequence_input[3]
    /\ Len(interpolations) = 1
    /\ interpolations[1].from_sign = sign_sequence_input[1].gloss
    /\ interpolations[1].frames[1] # interpolations[1].frames[Len(interpolations[1].frames)]

-----------------------------------------------------------------------------
(* C17: focus_on_body_part(poses, part) returns an array of the same frame  *)
(* and landmark shape in which every landmark that is not in the part's     *)
(* group is all zero and every landmark of the group is copied unchanged; a *)
(* part that is no key of LANDMARK_INDICES fails with ValueError and        *)
(* returns nothing.                                                         *)
C17_FocusOnBodyPart ==
    (pc # "input" /\ call.function = "focus_on_body_part") =>
        IF call.part \in {"hands", "upper_body", "torso", "face", "legs"}
        THEN /\ pc = "done" /\ returned.kind = "array"
             /\ returned.ref.buf \notin DOMAIN call.arrays
             /\ Len(Read(heap, returned.ref)) = Len(call.arrays[1])
             /\ \A f \in 1..(Len(call.arrays[1])) :
                   /\ DOMAIN Read(heap, returned.ref)[f] = DOMAIN call.arrays[1][f]
                   /\ \A l \in DOMAIN call.arrays[1][f] :
                         Read(heap, returned.ref)[f][l] =
                             IF l \in LANDMARK_INDICES[call.part]
                             THEN call.arrays[1][f][l] ELSE <<0, 0, 0>>
        ELSE /\ pc = "raised" /\ returned = Failure("ValueError")
             /\ heap = call.arrays

C17_Witness ==
    /\ pc = "done" /\ call.function = "focus_on_body_part" /\ call.part = "hands"
    /\ Len(call.arrays[1]) = MaxPoseFrames
    /\ call.arrays[1][2][0] # <<0, 0, 0>>
    /\ Read(heap, returned.ref)[2][0] = <<0, 0, 0>>
    /\ Read(heap, returned.ref)[2][15] = call.arrays[1][2][15]
    /\ call.arrays[1][2][15][3] > 0

-----------------------------------------------------------------------------
(* C18: no engine operation mutates a caller-owned pose array: after any    *)
(* call of filter_poses_by_visibility, normalize_poses, focus_on_body_part, *)
(* euclidean_distance, dtw_distance, compare_sign_sequences,                *)
(* calculate_accuracy_metrics or score_step, returned or raised, the arrays *)
(* passed in are element for element equal to their values before the call. *)
C18_CallerArraysUnchanged ==
    pc # "input" =>
        /\ Len(heap) >= Len(call.arrays)
        /\ \A i \in DOMAIN call.arrays : heap[i] = call.arrays[i]

C18_Witness ==
    /\ pc = "done" /\ call.function = "compare_sign_sequences"
    /\ ~call.use_hand_focus
    /\ Len(heap) = 6
    /\ heap[1] = call.arrays[1] /\ heap[2] = call.arrays[2]
    /\ heap[3] # heap[1]
    /\ \E l \in Landmarks : heap[3][1][l] = <<NaN, NaN, NaN>>
    /\ heap[5] # flatten_poses(heap[3])

-----------------------------------------------------------------------------
(* C19: normalize_poses replaces every nan of a dimension by the mean of    *)
(* the dimension's valid values, or by 0 when it has none, then rescales    *)
(* each dimension with min < max linearly so that its minimum is 0 and its  *)
(* maximum is 1, and leaves a dimension with min = max unscaled; the output *)
(* contains no nan, and an input of nan only yields all zeros without       *)
(* raising, for every array of at least one frame.                          *)

\* the valid frames of dimension i
C19_Valid(poses, i) == {f \in 1..(Len(poses)) : ~IsNaN(poses[f][i])}

\* the mean of the valid values of dimension i, 0 when there is none
C19_Mean(poses, i) ==
    IF C19_Valid(poses, i) = {} THEN 0
    ELSE SumSeq(Array([f \in 1..(Len(poses)) |->
                    IF IsNaN(poses[f][i]) THEN 0 ELSE poses[f][i]]))
             \div Cardinality(C19_Valid(poses, i))

\* dimension i with every nan replaced
C19_Replaced(poses, i) ==
    [f \in 1..(Len(poses)) |->
        IF IsNaN(poses[f][i]) THEN C19_Mean(poses, i) ELSE poses[f][i]]

C19_Least(col) == CHOOSE v \in {col[f] : f \in DOMAIN col} : \A f \in DOMAIN col : v <= col[f]

C19_Greatest(col) == CHOOSE v \in {col[f] : f \in DOMAIN col} : \A f \in DOMAIN col : v >= col[f]

C19_DimensionNormalized(replaced, out, i) ==
    IF C19_Least(replaced) < C19_Greatest(replaced)
    THEN /\ \A f \in DOMAIN replaced :
               out[f][i] = ((replaced[f] - C19_Least(replaced)) * Unit)
                               \div (C19_Greatest(replaced) - C19_Least(replaced))
         /\ \E f \in DOMAIN replaced : out[f][i] = 0
         /\ \E f \in DOMAIN replaced : out[f][i] = Unit
         /\ \A f \in DOMAIN replaced : out[f][i] >= 0 /\ out[f][i] <= Unit
    ELSE \A f \in DOMAIN replaced : out[f][i] = replaced[f]

C19_Normalized(poses, out) ==
    /\ Len(out) = Len(poses)
    /\ \A f \in 1..(Len(poses)) : Len(out[f]) = Len(poses[f])
    /\ \A i \in 1..(Len(poses[1])) :
          C19_DimensionNormalized(C19_Replaced(poses, i), out, i)
    /\ \A f \in 1..(Len(out)) : \A i \in 1..(Len(out[f])) : ~IsNaN(out[f][i])
    /\ (\A f \in 1..(Len(poses)) : \A i \in 1..(Len(poses[f])) : IsNaN(poses[f][i]))
          => \A f \in 1..(Len(out)) : \A i \in 1..(Len(out[f])) : out[f][i] = 0

-----------------------------------------------------------------------------
(* C20: filter_poses_by_visibility marks the x and y of every landmark      *)
(* whose visibility is strictly below the threshold as nan, leaves every    *)
(* landmark whose visibility is at or above the threshold unchanged, and    *)
(* returns an array of the same shape as its input.                         *)
C20_FilterPosesByVisibility ==
    (pc # "input" /\ call.function = "filter_poses_by_visibility") =>
        /\ pc = "done" /\ returned.kind = "array"
        /\ Len(Read(heap, returned.ref)) = Len(call.arrays[1])
        /\ \A f \in 1..(Len(call.arrays[1])) :
              /\ DOMAIN Read(heap, returned.ref)[f] = DOMAIN call.arrays[1][f]
              /\ \A l \in DOMAIN call.arrays[1][f] :
                    /\ Len(Read(heap, returned.ref)[f][l]) = Len(call.arrays[1][f][l])
                    /\ call.arrays[1][f][l][3] < call.threshold =>
                          /\ IsNaN(Read(heap, returned.ref)[f][l][1])
                          /\ IsNaN(Read(heap, returned.ref)[f][l][2])
                    /\ call.arrays[1][f][l][3] >= call.threshold =>
                          Read(heap, returned.ref)[f][l] = call.arrays[1][f][l]

C20_Witness ==
    /\ pc = "done" /\ call.function = "filter_poses_by_visibility"
    /\ call.threshold = (9 * Unit) \div 10
    /\ call.arrays[1] = <<PoseFrame(1), PoseFrame(2)>>
    /\ call.arrays[1][1][0][3] = call.threshold
    /\ Read(heap, returned.ref)[1] = PoseFrame(1)
    /\ call.arrays[1][2][0][3] < call.threshold
    /\ IsNaN(Read(heap, returned.ref)[2][0][1])
    /\ Read(heap, returned.ref)[2][1] = PoseFrame(2)[1]

-----------------------------------------------------------------------------
(* C21: the step list of every MagicTrickDefinition, constructed directly   *)
(* or through from_json, is sorted ascending by order and contains no two   *)
(* steps with the same order value.                                         *)
C21_SortedUnique(steps) ==
    \A i, j \in 1..(Len(steps)) : i < j => steps[i].order < steps[j].order

C21_StepsSortedAndOrderUnique ==
    /\ pc # "input" => C21_SortedUnique(definition.steps)
    /\ pc \in {"restored", "done"} => C21_SortedUnique(restored.steps)

\* the input of C21's counterexample: two steps of order 2
C21_FailingInput ==
    /\ pc = "constructed"
    /\ Len(definition_input.steps) = 2
    /\ definition_input.steps[1].order = 2 /\ definition_input.steps[2].order = 2

\* what does hold: the orders never decrease along the step list
C21_StepsSortedAscending ==
    /\ pc # "input" =>
          \A i, j \in 1..(Len(definition.steps)) :
              i < j => definition.steps[i].order <= definition.steps[j].order
    /\ pc \in {"restored", "done"} =>
          \A i, j \in 1..(Len(restored.steps)) :
              i < j => restored.steps[i].order <= restored.steps[j].order

-----------------------------------------------------------------------------
(* C30: JSON serialisation of a trick round-trips: from_json(to_json(t))    *)
(* has the name, difficulty and description of t and an equal step list     *)
(* (the same order values, expected durations, hand states with all six     *)
(* fields, descriptions and key points, in the same sorted order), and      *)
(* to_json(from_json(to_json(t))) = to_json(t).                             *)
C30_SameHandState(a, b) ==
    /\ a.name = b.name /\ a.hand = b.hand /\ a.position = b.position
    /\ a.finger_configuration = b.finger_configuration
    /\ a.visibility_required = b.visibility_required
    /\ a.tolerance = b.tolerance

C30_SameStep(a, b) ==
    /\ a.order = b.order /\ a.duration_frames = b.duration_frames
    /\ a.description = b.description /\ a.key_points = b.key_points
    /\ Len(a.hand_states) = Len(b.hand_states)
    /\ \A k \in 1..(Len(a.hand_states)) : C30_SameHandState(a.hand_states[k], b.hand_states[k])

C30_JsonRoundTrip ==
    pc = "done" =>
        /\ restored.name = definition.name
        /\ restored.difficulty = definition.difficulty
        /\ restored.description = definition.description
        /\ Len(restored.steps) = Len(definition.steps)
        /\ \A i \in 1..(Len(definition.steps)) :
              C30_SameStep(restored.steps[i], definition.steps[i])
        /\ json_again = json_text

C30_Witness ==
    /\ pc = "done"
    /\ Len(definition.steps) = MaxTrickSteps
    /\ \E i \in 1..(Len(definition.steps) - 1) :
          /\ definition.steps[i].order = definition.steps[i + 1].order
          /\ definition.steps[i] # definition.steps[i + 1]
    /\ \E i \in 1..(Len(restored.steps)) :
          /\ Len(restored.steps[i].hand_states) = 2
          /\ restored.steps[i].hand_states[1].tolerance # default_tolerance
    /\ definition_input.steps # definition.steps
    /\ Len(Item(json_text, "steps")) = MaxTrickSteps

-----------------------------------------------------------------------------
(* C22: scoring calls share no mutable state: under any interleaving of     *)
(* concurrent calls of compare_sign_sequences, calculate_accuracy_metrics,  *)
(* score_step and score_complete_trick each call returns the result it      *)
(* returns when run alone, and the configuration tables (LANDMARK_INDICES,  *)
(* DTW_CONFIG, the scorer's landmark constants) are never written after     *)
(* load.                                                                    *)
C22_CallsDoNotInterfere ==
    /\ config_tables = LoadedTables
    /\ \A p \in DOMAIN call_results :
          call_results[p] # Pending => call_results[p] = running[p].alone

C22_Witness ==
    /\ pc = "done" /\ overlap
    /\ \E p, q \in 1..NumCalls :
          /\ running[p].function = "calculate_accuracy_metrics"
          /\ running[q].function = "compare_sign_sequences"
          /\ running[q].arguments.use_hand_focus = "False"
          /\ call_results[p] = running[p].alone
          /\ call_results[p].metrics.hand_dtw_score # call_results[p].metrics.dtw_score

-----------------------------------------------------------------------------
(* C23 as claimed: the alignment algorithm run by dtw_distance is selected  *)
(* only by use_fast (or its configured default): the same inputs and the    *)
(* same mode yield the same algorithm whichever optional libraries are      *)
(* importable, with no fall-back from DTW to the Euclidean distance or from *)
(* approximate to exact DTW.                                                *)
C23_FastRequested == IF use_fast = "None" THEN use_fast_dtw ELSE use_fast = "True"

C23_AlgorithmSelectedByModeOnly ==
    (pc = "done" /\ Len(ref_flat) > 0 /\ Len(user_flat) > 0) =>
        dtw_result = IF C23_FastRequested THEN Value(fastdtw(ref_flat, user_flat))
                     ELSE Value(dtw_distance_exact(ref_flat, user_flat))

(* C23 amended: the algorithm is selected by use_fast (or its configured    *)
(* default) together with the libraries that import: without dtaidistance   *)
(* the call returns euclidean_distance of its arguments in every mode;      *)
(* with dtaidistance and non-empty inputs it runs fastdtw when the fast     *)
(* mode is requested and fastdtw imports, and exact DTW otherwise (also     *)
(* when the fast mode is requested and fastdtw is missing).                 *)
C23_AlgorithmSelectedByModeAndImports ==
    (pc = "done" /\ Len(ref_flat) > 0 /\ Len(user_flat) > 0) =>
        IF ~dtaidistance_available
        THEN \E r \in ResampleChoices(ref_flat, user_flat) :
                 dtw_result = euclidean_distance(ref_flat, user_flat, r)
        ELSE IF C23_FastRequested /\ fastdtw_available
        THEN dtw_result = Value(fastdtw(ref_flat, user_flat))
        ELSE dtw_result = Value(dtw_distance_exact(ref_flat, user_flat))

\* C23 witness: the fast mode is requested, fastdtw is missing, and the call
\* returns the exact distance, which differs from that of fastdtw
C23_Witness ==
    /\ pc = "done" /\ use_fast = "True"
    /\ dtaidistance_available /\ ~fastdtw_available
    /\ Len(ref_flat) > 1 /\ Len(user_flat) > 1
    /\ dtw_result = Value(dtw_distance_exact(ref_flat, user_flat))
    /\ dtw_result # Value(fastdtw(ref_flat, user_flat))

-----------------------------------------------------------------------------
(* C25: for non-empty sequences the approximate DTW distance, dtw_distance  *)
(* with use_fast=True, is within 10% of the exact DTW distance,             *)
(* use_fast=False, of the same pair (both libraries importable).            *)
C25_Within(approximate, exact) ==
    /\ approximate.kind = "value" /\ exact.kind = "value"
    /\ 10 * (approximate.value - exact.value) <= exact.value
    /\ 10 * (exact.value - approximate.value) <= exact.value

C25_FastWithinTenPercentOfExact ==
    (/\ pc = "done" /\ use_fast = "True"
     /\ dtaidistance_available /\ fastdtw_available
     /\ Len(ref_flat) > 0 /\ Len(user_flat) > 0) =>
        C25_Within(dtw_result,
                   dtw_distance(ref_flat, user_flat, "False", TRUE, TRUE, 0))

\* C25 failing input: two reference frames and two different user frames,
\* where fastdtw adds the two frame distances and exact DTW takes the root
\* of the sum of their squares
C25_FailingInput ==
    /\ pc = "done" /\ use_fast = "True"
    /\ dtaidistance_available /\ fastdtw_available
    /\ ref_flat = <<FirstFeature, FirstFeature>>
    /\ user_flat = <<SecondFeature, SecondFeature>>
    /\ dtw_result = Value(2 * euclidean(FirstFeature, SecondFeature))
    /\ dtw_distance(ref_flat, user_flat, "False", TRUE, TRUE, 0)
           = Value(ISqrt(2 * SqDist(FirstFeature, SecondFeature)))

-----------------------------------------------------------------------------
(* C24: a call of compare_sign_sequences with a negative visibility         *)
(* threshold is rejected with an error before any filtering, normalization  *)
(* or distance computation takes place, so that no array besides the        *)
(* caller's has been produced; numeric edge cases never raise.              *)
C24_MalformedInputRejected ==
    (/\ pc \in {"done", "raised"}
     /\ call.function = "compare_sign_sequences"
     /\ call.threshold < 0) =>
        (pc = "raised" /\ heap = call.arrays)

\* C24 failing input: two one-frame sequences and a negative threshold, for
\* which the call filters, normalizes and returns a score
C24_FailingInput ==
    /\ pc = "done"
    /\ call.function = "compare_sign_sequences"
    /\ call.threshold = NegativeThreshold
    /\ Len(call.arrays[1]) = 1 /\ Len(call.arrays[2]) = 1
    /\ returned.kind = "value"
    /\ Len(heap) > Len(call.arrays)

\* C24, the part that holds: with a threshold that is not negative the call
\* never raises, whatever the frames (none, all landmarks invisible,
\* constant columns)
C24_NumericEdgeCasesNeverRaise ==
    (call.function = "compare_sign_sequences" /\ call.threshold >= 0) =>
        pc # "raised"

-----------------------------------------------------------------------------
(* C26: after any sequence of sequential progress updates of one pair,      *)
(* through save_user_progress or update_user_progress_unified, no call has  *)
(* failed, and the pair's row has attempts equal to the number of calls and *)
(* best_score equal to the largest score submitted.                         *)
C26_Recorded(table, calls, best) ==
    calls > 0 =>
        /\ Len(table) = 1
        /\ table[1].attempts = calls
        /\ table[1].best_score = best

C26_SequentialUpdatesRecorded ==
    /\ update_error = "none"
    /\ C26_Recorded(user_progress, progress_calls["user_progress"],
                    best_submitted["user_progress"])
    /\ C26_Recorded(user_progress_v2, progress_calls["user_progress_v2"],
                    best_submitted["user_progress_v2"])

\* C26 failing input: a second save_user_progress call with completed=True
C26_FailingInput ==
    /\ progress_calls["user_progress"] = 2
    /\ update_error = "IndexError"
    /\ Len(user_progress) = 1 /\ user_progress[1].attempts = 1

\* C26, a part that holds: the stored best_score never decreases
C26_BestScoreNeverDecreases ==
    [][/\ (user_progress # <<>> =>
              user_progress'[1].best_score >= user_progress[1].best_score)
       /\ (user_progress_v2 # <<>> =>
              user_progress_v2'[1].best_score >= user_progress_v2[1].best_score)]_vars

-----------------------------------------------------------------------------
(* C27: when two concurrent progress updates of one pair have both ended,   *)
(* exactly one row exists for the pair, its attempts is the number of       *)
(* completed calls and its best_score the largest score submitted by them.  *)
C27_OneRow(table, calls, best) ==
    /\ Len(table) = 1
    /\ table[1].attempts = calls
    /\ table[1].best_score = best

C27_NoLostUpdateNoDuplicate ==
    pc = "done" =>
        LET t == TableOf(clients[1].function) IN
        update_error = "none" =>
            C27_OneRow(Rows(t), progress_calls[t], best_submitted[t])

\* C27 failing input: two save_user_progress calls with completed=False on a
\* pair without a row, both of which select before either inserts
C27_FailingInput ==
    /\ pc = "done"
    /\ \A c \in 1..NumClients :
          /\ clients[c].function = "save_user_progress"
          /\ ~clients[c].completed /\ clients[c].phase = "done"
    /\ Len(user_progress) = 2

-----------------------------------------------------------------------------
(* C28: _reorder_topic_comment returns a permutation of its input tokens in *)
(* which every TIME token precedes every other token and every QUESTION     *)
(* token follows every other token, the first NOUN among the remaining      *)
(* tokens comes directly after the time markers, and the tokens of each     *)
(* group keep their input order.                                            *)
C28_Count(toks, t) == Cardinality({i \in 1..Len(toks) : toks[i] = t})

C28_Rest(toks) ==
    LET nouns == NounPositions(OtherTokens(toks))
    IN  IF nouns = {} THEN OtherTokens(toks)
        ELSE Without(OtherTokens(toks), FirstOf(nouns))

C28_Reordered(input, result) ==
    LET times == Len(OfType(input, "time"))
        nouns == NounPositions(OtherTokens(input))
    IN  /\ \A t \in TokenPalette : C28_Count(result, t) = C28_Count(input, t)
        /\ \A i, j \in 1..Len(result) :
              i < j => /\ result[j].sign_type = "time" => result[i].sign_type = "time"
                       /\ result[i].sign_type = "question" =>
                              result[j].sign_type = "question"
        /\ nouns # {} => result[times + 1] = OtherTokens(input)[FirstOf(nouns)]
        /\ OfType(result, "time") = OfType(input, "time")
        /\ OfType(result, "question") = OfType(input, "question")
        /\ nouns # {} =>
              SubSeq(result, times + 2, Len(result) - Len(OfType(input, "question")))
                  = C28_Rest(input)
        /\ nouns = {} => OtherTokens(result) = OtherTokens(input)

C28_ReorderTopicComment ==
    pc = "done" => C28_Reordered(gloss_tokens, reordered_tokens)

\* C28 witness: a question word, a verb, a noun and a time marker, in an
\* order that moves all four
C28_Witness ==
    /\ pc = "done"
    /\ Len(gloss_tokens) = 4
    /\ gloss_tokens[1].sign_type = "question" /\ gloss_tokens[2].sign_type = "verb"
    /\ gloss_tokens[3].sign_type = "noun" /\ gloss_tokens[4].sign_type = "time"
    /\ reordered_tokens = <<gloss_tokens[4], gloss_tokens[3], gloss_tokens[2],
                            gloss_tokens[1]>>

-----------------------------------------------------------------------------
====
